---- MODULE Spec2Model ----
(***************************************************************************)
(* State-machine model of the VARTA Storage integration                    *)
(* (custom_components/varta_storage): the two polling coordinators         *)
(* (__init__.py), the Riemann integration sensor and the calculated        *)
(* sensor (sensor.py).                                                     *)
(*                                                                         *)
(* Python values are tagged records.  Numbers are exact rationals          *)
(* [t |-> "num", n, d] (d > 0, reduced): the model follows the arithmetic  *)
(* of the code on exact values; binary floating-point rounding error is    *)
(* not modelled.                                                           *)
(***************************************************************************)
EXTENDS Integers, Sequences, FiniteSets, TLC

VARIABLES
    cgi,            \* entry.data.get("cgi"): the secondary channel is enabled
    setupStep,      \* position of async_setup_entry: "modbus", "cgi", "done", "failed"
    coordinators,   \* hass.data[DOMAIN][entry_id]: the registered coordinators
    data,           \* data[ch]: DataUpdateCoordinator.data (NoneV or a flat dict)
    outcome,        \* outcome[ch]: how the last refresh of ch ended for the coordinator
    pc,             \* pc[ch]: position of the awaited sync_update of ch
    tries,          \* tries[ch]: the attempts of the last stepwise poll cycle of ch, in order
    ems_data,       \* ems_data[ch]: the reply the local ems_data of a running sync_update is bound to (0: none)
    orphans,        \* orphans[ch]: sync_update threads still running after their await timed out
    now,            \* dt_util.utcnow(), in seconds
    today,          \* dt_util.now().date(), as a day number
    entity,         \* which entity instance is modelled: [kind, key, source_key]
    added,          \* the entity's async_added_to_hass has run
    unsub_interval, \* _unsub_interval is set: the entity's timer is registered
    total_energy,   \* VartaRiemannSensor._total_energy
    last_power,     \* VartaRiemannSensor._last_power
    last_update,    \* VartaRiemannSensor._last_update
    daily_import,   \* VartaCalculatedSensor._daily_import
    daily_export,   \* VartaCalculatedSensor._daily_export
    last_import_total, \* VartaCalculatedSensor._last_import_total
    last_export_total, \* VartaCalculatedSensor._last_export_total
    last_reset_date,   \* VartaCalculatedSensor._last_reset_date
    native_value,   \* the value the entity last handed to async_write_ha_state
    stored,         \* StateStore: the last state of the entity kept for restore
    reloads,        \* number of reloads of the config entry so far
    hist            \* history of the entity since it was added (for stating the claims)

vars == <<cgi, setupStep, coordinators, data, outcome, pc, tries, ems_data,
          orphans, now, today, entity, added, unsub_interval, total_energy,
          last_power, last_update,
          daily_import, daily_export, last_import_total, last_export_total,
          last_reset_date, native_value, stored, reloads, hist>>

pollVars == <<cgi, setupStep, coordinators, data, outcome, pc, tries,
              ems_data, orphans>>
riemannVars == <<total_energy, last_power, last_update>>
calcVars == <<daily_import, daily_export, last_import_total, last_export_total,
              last_reset_date>>

-----------------------------------------------------------------------------
(* Bounds of the model *)

MaxOrphans == 1         \* abandoned sync_update threads per channel
MaxTime == 8400         \* the clock stops advancing here (seconds)
MaxReloads == 1         \* reloads of the config entry
MaxDay == 2             \* the calendar stops advancing here
MaxHist == 3            \* ticks of the Riemann sensor that record a sample
MaxReadings == 3        \* ticks of a daily sensor that read its counter

-----------------------------------------------------------------------------
(* Python values *)

NoneV == [t |-> "none"]
Str(s) == [t |-> "str", s |-> s]
Abs(x) == IF x < 0 THEN 0 - x ELSE x

RECURSIVE GCD(_, _)
GCD(a, b) == IF b = 0 THEN a ELSE GCD(b, a % b)

Sign(x) == IF x < 0 THEN 0 - 1 ELSE 1

\* the rational n/d, reduced
Num(n, d) ==
    LET g == GCD(Abs(n), d)
    IN  [t |-> "num", n |-> Sign(n) * (Abs(n) \div g), d |-> d \div g]
Whole(n) == Num(n, 1)

IsNum(v) == v.t = "num"
LCM(a, b) == (a \div GCD(a, b)) * b

NumAdd(a, b) ==
    LET l == LCM(a.d, b.d)
    IN  Num(a.n * (l \div a.d) + b.n * (l \div b.d), l)
NumNeg(a) == [t |-> "num", n |-> 0 - a.n, d |-> a.d]
NumSub(a, b) == NumAdd(a, NumNeg(b))
NumMul(a, b) == Num(a.n * b.n, a.d * b.d)
NumDiv(a, b) == Num(Sign(b.n) * a.n * b.d, a.d * Abs(b.n))
NumLt(a, b) ==
    LET l == LCM(a.d, b.d)
    IN  a.n * (l \div a.d) < b.n * (l \div b.d)
NumLe(a, b) == ~NumLt(b, a)
NumAbs(a) == [t |-> "num", n |-> Abs(a.n), d |-> a.d]
NumMin(a, b) == IF NumLt(b, a) THEN b ELSE a
NumMax(a, b) == IF NumLt(a, b) THEN b ELSE a
Zero == Whole(0)

RECURSIVE Pow10(_)
Pow10(k) == IF k = 0 THEN 1 ELSE 10 * Pow10(k - 1)

\* <<floor(r * 10^k / d), remainder>> by long division, for 0 <= r < d
RECURSIVE LongDiv(_, _, _)
LongDiv(r, d, k) ==
    IF k = 0 THEN <<0, r>>
    ELSE LET p == LongDiv(r, d, k - 1)
             r1 == p[2] * 10
         IN  <<p[1] * 10 + (r1 \div d), r1 % d>>

\* round(x, k) of Python: to k decimals, ties to the even neighbour
Round(x, k) ==
    LET a == Abs(x.n)
        ip == a \div x.d
        p == LongDiv(a % x.d, x.d, k)
        q == ip * Pow10(k) + p[1]
        up == \/ 2 * p[2] > x.d
              \/ (2 * p[2] = x.d /\ q % 2 = 1)
        m == IF up THEN q + 1 ELSE q
    IN  Num(Sign(x.n) * m, Pow10(k))

-----------------------------------------------------------------------------
(* dict: a function from keys (strings) to values *)

EmptyDict == [k \in {} |-> NoneV]
\* d.get(k) and d.get(k, default)
Get(d, k) == IF k \in DOMAIN d THEN d[k] ELSE NoneV
GetDefault(d, k, default) == IF k \in DOMAIN d THEN d[k] ELSE default
\* mutant: the entry written first is kept
UpdateKeepsFirst(d, e) == d @@ e

\* mutant: the entries are written under a prefixed key
UpdateUnderPrefix(d, e) ==
    [k \in {"_" \o j : j \in DOMAIN e} |->
        e[CHOOSE j \in DOMAIN e : "_" \o j = k]] @@ d

\* d.update(e): the entries of e win
Update(d, e) == e @@ d

\* a dataclass instance: its fields in declaration order, each <<name, value>>
DC(fs) == [t |-> "dc", fs |-> fs]
\* a dict held as a value inside a reply: its items in insertion order
DictV(fs) == [t |-> "dict", fs |-> fs]
ListV(xs) == [t |-> "list", xs |-> xs]
IsDC(v) == v.t = "dc"
\* getattr(obj, name) of a dataclass; hasattr is HasAttr
HasAttr(obj, name) == IsDC(obj) /\ \E i \in 1..Len(obj.fs) : obj.fs[i][1] = name
GetAttr(obj, name) ==
    LET i == CHOOSE j \in 1..Len(obj.fs) : obj.fs[j][1] = name IN obj.fs[i][2]

\* str(obj) of a scalar or of a list of scalars
RECURSIVE StrOf(_), Joined(_, _)
Joined(xs, i) ==
    IF i = 0 THEN ""
    ELSE IF i = 1 THEN StrOf(xs[1])
    ELSE Joined(xs, i - 1) \o ", " \o StrOf(xs[i])
StrOf(v) ==
    IF v.t = "str" THEN v.s
    ELSE IF v.t = "list" THEN "[" \o Joined(v.xs, Len(v.xs)) \o "]"
    ELSE IF v.d = 1 THEN ToString(v.n)
    ELSE ToString(v.n) \o "/" \o ToString(v.d)

\* mutant: the key is the type name, not the text of the value
TypeNameOf(v) == v.t

\* line 44: the key of an input that is no dataclass and no dict
KeyOf(v) == StrOf(v)

\* flatten_dataclass: the loop body over the fields (or items) fs[1..i]
RECURSIVE flatten_dataclass(_), FlattenItems(_, _)
FlattenItems(fs, i) ==
    IF i = 0 THEN EmptyDict
    ELSE LET flat_dict == FlattenItems(fs, i - 1)
             name == fs[i][1]
             value == fs[i][2]
         IN  IF IsDC(value) THEN Update(flat_dict, flatten_dataclass(value))
             ELSE IF value # NoneV THEN Update(flat_dict, name :> value)
             ELSE flat_dict

flatten_dataclass(obj) ==
    IF obj.t \in {"dc", "dict"} THEN FlattenItems(obj.fs, Len(obj.fs))
    ELSE IF obj # NoneV THEN KeyOf(obj) :> obj
    ELSE EmptyDict

-----------------------------------------------------------------------------
(* The device: the replies the DeviceClient can give *)

Channels == {"modbus", "cgi"}

NModbusReplies == 4     \* distinct replies of get_all_data_modbus
NCgiReplies == 5        \* distinct replies of the four CGI endpoints

Pick(table, i) == table[((i - 1) % Len(table)) + 1]

PowerTable == <<Whole(100), Whole(0 - 50), NoneV, Str("n/a")>>
SocTable == <<Whole(80), Whole(80), Whole(35), NoneV>>

\* get_all_data_modbus(): a flat dataclass of register values
ModbusReply(i) ==
    DC(<< <<"soc", Pick(SocTable, i)>>,
          <<"installed_capacity", Whole(5000)>>,
          <<"charge_power", Pick(PowerTable, i)>>,
          <<"discharge_power", Pick(PowerTable, i + 1)>>,
          <<"to_grid_power", Pick(PowerTable, i + 2)>>,
          <<"from_grid_power", Pick(PowerTable, i + 3)>> >>)

ImportTable == <<Whole(10), Whole(15), Whole(12), Whole(20), NoneV>>
ExportTable == <<Whole(5), Num(16001, 3000), Str("n/a"), NoneV>>
ChargedTable == <<Whole(10), Whole(0), Str("n/a"), Whole(8), NoneV>>
DischargedTable == <<Whole(12), Whole(5), Whole(8), Whole(6), NoneV>>

\* get_ems_cgi(), get_energy_cgi(), get_info_cgi(), get_service_cgi()
CgiEms(i) ==
    DC(<< <<"wr_data", DC(<< <<"frequency_grid", Whole(50)>>,
                             <<"nominal_power", Whole(i)>> >>)>>,
          <<"emeter_data", NoneV>>,
          <<"online_status", Whole(1)>> >>)
CgiEnergy(i) ==
    DC(<< <<"total_grid_ac_dc", Pick(ImportTable, i)>>,
          <<"total_grid_dc_ac", Pick(ExportTable, i)>>,
          <<"total_inverter_ac_dc", Pick(ChargedTable, i)>>,
          <<"total_inverter_dc_ac", Pick(DischargedTable, i)>>,
          <<"total_charge_cycles",
            IF i % 2 = 0 THEN ListV(<<Whole(7)>>) ELSE Whole(7)>> >>)
CgiInfo(i) == DC(<< <<"device_description", Str("VARTA")>> >>)
CgiService(i) == DC(<< <<"hours_until_filter_maintenance", Whole(100)>> >>)

Replies(ch) == IF ch = "modbus" THEN 1..NModbusReplies ELSE 1..NCgiReplies

-----------------------------------------------------------------------------
(* __init__.py: the fetch functions *)

\* lines 166-171: a list of charge cycles is replaced by its first element
PostProcess(energy_data) ==
    LET c == GetAttr(energy_data, "total_charge_cycles")
    IN  IF c.t = "list" /\ Len(c.xs) >= 1
        THEN DC([j \in 1..Len(energy_data.fs) |->
                    IF energy_data.fs[j][1] = "total_charge_cycles"
                    THEN <<"total_charge_cycles", c.xs[1]>>
                    ELSE energy_data.fs[j]])
        ELSE energy_data

\* VartaStorageCgiData(...) built from the four reads of reply i
CgiResult(i) ==
    DC(<< <<"ems_data", CgiEms(i)>>,
          <<"energy_data", PostProcess(CgiEnergy(i))>>,
          <<"info_data", CgiInfo(i)>>,
          <<"service_data", CgiService(i)>> >>)

\* lines 239-244: flat_data.update(flatten_dataclass(ems_data.<name>)) when set
NestedEms(flat_data, ems, name) ==
    IF HasAttr(ems, name) /\ GetAttr(ems, name) # NoneV
    THEN Update(flat_data, flatten_dataclass(GetAttr(ems, name)))
    ELSE flat_data

\* what async_update_modbus.sync_update returns for reply r
ModbusFlat(r) == flatten_dataclass(ModbusReply(r))

\* what async_update_cgi.sync_update returns: result is reply r, and the local
\* variable ems_data holds the EMS read of reply e
CgiFlat(r, e) ==
    LET ems == CgiEms(e)
        f0 == flatten_dataclass(CgiResult(r))
        f1 == NestedEms(f0, ems, "wr_data")
        f2 == NestedEms(f1, ems, "emeter_data")
    IN  NestedEms(f2, ems, "ens_data")

Snapshot(m) == [t |-> "dict", m |-> m]

\* the flat dicts of all replies, computed once
ModbusResults == [r \in 1..NModbusReplies |-> Snapshot(ModbusFlat(r))]
CgiResults ==
    [r \in 1..NCgiReplies |-> [e \in 1..NCgiReplies |-> Snapshot(CgiFlat(r, e))]]

\* the flat dict a successful sync_update of ch returns
SyncResult(ch, r, e) ==
    IF ch = "modbus" THEN ModbusResults[r] ELSE CgiResults[r][e]

-----------------------------------------------------------------------------
(* DataUpdateCoordinator (one per channel) driving the fetch functions *)

NoTries == <<>>
NoCoordinatorState ==
    /\ data = [ch \in Channels |-> NoneV]
    /\ outcome = [ch \in Channels |-> "none"]
    /\ pc = [ch \in Channels |-> "idle"]
    /\ tries = [ch \in Channels |-> NoTries]
    /\ ems_data = [ch \in Channels |-> 0]
\* new DataUpdateCoordinator objects replace the old ones
NewCoordinators ==
    /\ data' = [ch \in Channels |-> NoneV]
    /\ outcome' = [ch \in Channels |-> "none"]
    /\ pc' = [ch \in Channels |-> "idle"]
    /\ tries' = [ch \in Channels |-> NoTries]
    /\ ems_data' = [ch \in Channels |-> 0]

\* the points at which one attempt of ch can raise: 0 is "no failure";
\* modbus has one device call, cgi has the four endpoint reads
FailPoints(ch) == IF ch = "modbus" THEN 0..1 ELSE 0..4

\* the record of one attempt: whether it succeeded, and the reply it returned
\* (0 when it raised)
Tried(ch, r, failAt) == [ok |-> failAt = 0, r |-> IF failAt = 0 THEN r ELSE 0]

\* mutant: the retry keeps the EMS read of the failed first attempt
EmsKeptFromFirst(old, r) == IF old # 0 THEN old ELSE r

\* ems_data = v.get_ems_cgi(): the local variable is bound to the new read
EmsAfterRead(old, r) == r

\* the local ems_data after an attempt on reply r that raised at failAt
EmsAfterFailure(ch, old, r, failAt) ==
    IF ch = "cgi" /\ failAt > 1 THEN EmsAfterRead(old, r) ELSE old

\* mutant: a successful refresh is merged into the cached dict
CacheMerged(old, kind, value) ==
    IF kind # "success" THEN old
    ELSE IF old = NoneV THEN value
    ELSE Snapshot(value.m @@ old.m)

\* mutant: a failed refresh clears the cache
CacheCleared(old, kind, value) == value

\* DataUpdateCoordinator: the cache after a refresh that ended as kind
CacheAfter(old, kind, value) == IF kind = "success" THEN value ELSE old

\* mutant: setup goes on after a failed first refresh
SetupIgnoresFailure(ch, kind) == IF ch = "modbus" /\ cgi THEN "cgi" ELSE "done"

\* async_setup_entry after the first refresh of ch ended as kind
SetupAfter(ch, kind) ==
    IF kind # "success" THEN "failed"
    ELSE IF ch = "modbus" /\ cgi THEN "cgi"
    ELSE "done"

Registered == IF cgi THEN {"modbus", "cgi"} ELSE {"modbus"}

\* mutant: the platform is forwarded before the first refreshes
ForwardedAtOnce == TRUE

\* line 283: the sensor platform is set up, and its entities are added, once
\* every first refresh has returned
PlatformForwarded == setupStep = "done"

\* the awaited refresh of ch ends as kind ("success", "UpdateFailed", "TimeoutError")
Finish(ch, kind, value) ==
    /\ data' = [data EXCEPT ![ch] = CacheAfter(data[ch], kind, value)]
    /\ outcome' = [outcome EXCEPT ![ch] = kind]
    /\ pc' = [pc EXCEPT ![ch] = "idle"]
    /\ ems_data' = [ems_data EXCEPT ![ch] = 0]
    /\ IF setupStep = ch
       THEN /\ setupStep' = SetupAfter(ch, kind)
            /\ coordinators' = IF setupStep' = "done" THEN Registered ELSE coordinators
       ELSE UNCHANGED <<setupStep, coordinators>>

\* mutant: a coordinator whose refresh failed is not scheduled again
StopsAfterFailure(ch) ==
    /\ pc[ch] = "idle"
    /\ \/ setupStep = ch
       \/ setupStep = "done" /\ ch \in coordinators /\ outcome[ch] = "success"

\* the coordinator may start a refresh of ch: the blocking first refresh of
\* async_setup_entry, or a scheduled refresh once setup is done; the next
\* refresh is scheduled only when the awaited one has ended
MayStart(ch) ==
    /\ pc[ch] = "idle"
    /\ \/ setupStep = ch
       \/ setupStep = "done" /\ ch \in coordinators

\* async_update_<ch>: hass.async_add_executor_job(sync_update) is started
StartFetch(ch) ==
    /\ MayStart(ch)
    /\ pc' = [pc EXCEPT ![ch] = "first"]
    /\ tries' = [tries EXCEPT ![ch] = <<>>]
    /\ ems_data' = [ems_data EXCEPT ![ch] = 0]
    /\ UNCHANGED <<cgi, setupStep, coordinators, data, outcome, orphans>>

\* sync_update: the first attempt (the outer try block)
FirstAttempt(ch) ==
    /\ pc[ch] = "first"
    /\ \E r \in Replies(ch), failAt \in FailPoints(ch) :
         /\ tries' = [tries EXCEPT ![ch] = Append(@, Tried(ch, r, failAt))]
         /\ IF failAt = 0
            THEN Finish(ch, "success", SyncResult(ch, r, EmsAfterRead(ems_data[ch], r)))
            ELSE /\ ems_data' = [ems_data EXCEPT ![ch] = EmsAfterFailure(ch, @, r, failAt)]
                 /\ pc' = [pc EXCEPT ![ch] = "second"]
                 /\ UNCHANGED <<setupStep, coordinators, data, outcome>>
    /\ UNCHANGED <<cgi, orphans>>

\* mutant: a failed second attempt is followed by a third
ThirdAttemptToo(ch) ==
    /\ pc[ch] = "second"
    /\ \E r \in Replies(ch), failAt \in FailPoints(ch) :
         /\ tries' = [tries EXCEPT ![ch] = Append(@, Tried(ch, r, failAt))]
         /\ IF failAt = 0
            THEN Finish(ch, "success", SyncResult(ch, r, EmsAfterRead(ems_data[ch], r)))
            ELSE IF Len(tries[ch]) >= 2 THEN Finish(ch, "UpdateFailed", NoneV)
            ELSE UNCHANGED <<setupStep, coordinators, data, outcome, pc, ems_data>>
    /\ UNCHANGED <<cgi, orphans>>

\* sync_update: the second attempt (the except block); a failure raises UpdateFailed
SecondAttempt(ch) ==
    /\ pc[ch] = "second"
    /\ \E r \in Replies(ch), failAt \in FailPoints(ch) :
         /\ tries' = [tries EXCEPT ![ch] = Append(@, Tried(ch, r, failAt))]
         /\ IF failAt = 0
            THEN Finish(ch, "success", SyncResult(ch, r, EmsAfterRead(ems_data[ch], r)))
            ELSE Finish(ch, "UpdateFailed", NoneV)
    /\ UNCHANGED <<cgi, orphans>>

\* mutant: every exception leaves the update method as UpdateFailed
AllAsUpdateFailed(e) == "UpdateFailed"

\* lines 128-129 and 251-252: except ValueError: raise UpdateFailed; any
\* other exception leaves the update method as it is
Reraised(e) == IF e = "ValueError" THEN "UpdateFailed" ELSE e

\* async_timeout.timeout(10 | 15) expires while sync_update is still running
\* in its executor thread: the await is cancelled, the thread is not
Timeout(ch) ==
    /\ pc[ch] \in {"first", "second"}
    /\ orphans[ch] < MaxOrphans
    /\ orphans' = [orphans EXCEPT ![ch] = @ + 1]
    /\ Finish(ch, Reraised("TimeoutError"), NoneV)
    /\ UNCHANGED <<cgi, tries>>

\* an abandoned sync_update thread returns; nobody awaits its result
OrphanReturns(ch) ==
    /\ orphans[ch] > 0
    /\ orphans' = [orphans EXCEPT ![ch] = @ - 1]
    /\ UNCHANGED <<cgi, setupStep, coordinators, data, outcome, pc, tries, ems_data>>

\* how a whole poll cycle of ch can end when its device calls return or
\* raise within the timeout: reply r1 with the first attempt failing at f1
\* (0: not at all), then reply r2 with the second attempt failing at f2
CycleResult(ch, r1, f1, r2, f2) ==
    IF f1 = 0
    THEN [kind |-> "success", value |-> SyncResult(ch, r1, EmsAfterRead(0, r1))]
    ELSE IF f2 = 0
    THEN [kind |-> "success",
          value |-> SyncResult(ch, r2,
                               EmsAfterRead(EmsAfterFailure(ch, 0, r1, f1), r2))]
    ELSE [kind |-> "UpdateFailed", value |-> NoneV]
CycleResults ==
    [ch \in Channels |->
        {CycleResult(ch, r1, f1, r2, f2) :
            r1 \in Replies(ch), f1 \in FailPoints(ch),
            r2 \in Replies(ch), f2 \in FailPoints(ch)}]

\* a whole poll cycle of ch as one step (StartFetch, FirstAttempt and
\* SecondAttempt composed): what the callbacks on the event loop see of it.
\* tries is not recorded.
Refresh(ch) ==
    /\ MayStart(ch)
    /\ \E c \in CycleResults[ch] : Finish(ch, c.kind, c.value)
    /\ UNCHANGED <<cgi, tries, orphans>>

\* sync_update threads of ch that have started and not yet returned
InFlight(ch) == (IF pc[ch] = "idle" THEN 0 ELSE 1) + orphans[ch]

-----------------------------------------------------------------------------
(* The entity under study: one VartaRiemannSensor or one VartaCalculatedSensor *)

\* const.py SENSORS_RIEMANN: key -> source_key
RiemannEntities ==
    { [kind |-> "riemann", key |-> "energyToGrid", source_key |-> "to_grid_power"],
      [kind |-> "riemann", key |-> "energyFromGrid", source_key |-> "from_grid_power"],
      [kind |-> "riemann", key |-> "energyCharged", source_key |-> "charge_power"],
      [kind |-> "riemann", key |-> "energyDischarged", source_key |-> "discharge_power"] }

\* const.py: SENSORS_CALCULATED
CalcKeys ==
    {"dailyNetGridImport", "dailyNetGridExport", "batteryEfficiency",
     "selfSufficiencyRate", "selfConsumptionRate", "availableEnergy",
     "timeToEmpty", "timeToFull", "totalPowerFlow"}
CalcEntities == {[kind |-> "calc", key |-> k, source_key |-> ""] : k \in CalcKeys}

NoEntity == [kind |-> "none", key |-> "", source_key |-> ""]

TimeV(s) == [t |-> "time", s |-> s]
DateV(d) == [t |-> "date", d |-> d]

\* a raised exception, as the result of a computation
Raise(e) == [t |-> "raise", e |-> e]
Raised(v) == v.t = "raise"

\* a state kept for restore: the state text and the last_reset_date attribute
StateOf(value, date) == [state |-> value, last_reset_date |-> date]
\* the text of a state: a number is its decimal text, None is "unknown"
StateText(value) == IF value = NoneV THEN Str("unknown") ELSE value

\* float(x): a number, or ValueError for text that is no number
Float(x) == IF IsNum(x) THEN x ELSE Raise("ValueError")

\* __init__ of both entity classes
NewEntityState ==
    /\ total_energy = Zero
    /\ last_power = NoneV
    /\ last_update = NoneV
    /\ daily_import = Zero
    /\ daily_export = Zero
    /\ last_import_total = NoneV
    /\ last_export_total = NoneV
    /\ last_reset_date = NoneV
    /\ native_value = NoneV
    /\ added = FALSE
    /\ unsub_interval = FALSE
\* a new entity object replaces the old one
NewEntity ==
    /\ total_energy' = Zero
    /\ last_power' = NoneV
    /\ last_update' = NoneV
    /\ daily_import' = Zero
    /\ daily_export' = Zero
    /\ last_import_total' = NoneV
    /\ last_export_total' = NoneV
    /\ last_reset_date' = NoneV
    /\ native_value' = NoneV
    /\ added' = FALSE
    /\ unsub_interval' = FALSE

\* mutant: the read sees a Snapshot in which one field is already that of
\* another reply
TornData(ch) ==
    IF ch = "modbus" /\ data[ch] # NoneV
    THEN Snapshot(("charge_power" :> Whole(0 - 50)) @@ data[ch].m)
    ELSE data[ch]

\* self.coordinator.data, self._cgi_coordinator.data: the dict the coordinator
\* holds when the tick runs (sensor.py lines 223, 230, 355, 356)
CoordinatorData(ch) == data[ch]

\* mutant: the timer keeps firing after it was unsubscribed
TimerNeverStopped == added

\* async_track_time_interval calls the tick while the timer is registered
TimerLive == unsub_interval

\* async_will_remove_from_hass of both entity classes (lines 215-219 and
\* 344-348): the timer is unsubscribed if there is one
WillRemove ==
    /\ added
    /\ unsub_interval' = (IF unsub_interval THEN FALSE ELSE unsub_interval)
    /\ UNCHANGED <<pollVars, now, today, entity, added, riemannVars, calcVars,
                   native_value, stored, reloads, hist>>

-----------------------------------------------------------------------------
(* sensor.py: VartaRiemannSensor *)

\* line 244: gaps of this many hours and more are not integrated
CeilingHours == 1

\* mutant: the persisted value is not read back
RestoreNothing(last_state) == Zero

\* mutant: a restore that fails starts from 1.0
RestoreFailureStartsAtOne(last_state) ==
    IF last_state = NoneV THEN Zero
    ELSE IF Raised(Float(last_state.state)) THEN Whole(1)
    ELSE Float(last_state.state)

\* lines 195-203: _total_energy after the restore from last_state
RestoreEnergy(last_state) ==
    IF last_state = NoneV THEN Zero
    ELSE IF Raised(Float(last_state.state)) THEN Zero
    ELSE Float(last_state.state)

\* mutant: the sign of the reading is kept
PowerSigned(current_power) == Float(current_power)

\* mutant: a reading from a Snapshot whose coordinator last failed counts as 0 W
StaleCountsAsZero(current_power) ==
    IF outcome["modbus"] = "success" THEN NumAbs(Float(current_power)) ELSE Zero

\* line 236: abs(float(current_power))
PowerOf(current_power) == NumAbs(Float(current_power))

\* mutant: any gap is integrated
AnyGapIntegrated(time_delta) == NumLt(Zero, time_delta)

\* line 244: the sanity check on the gap, in hours
GapIntegrated(time_delta) ==
    NumLt(Zero, time_delta) /\ NumLt(time_delta, Whole(CeilingHours))

\* mutant: the rectangle under the current reading
RectangleIncrement(current_power, prev_power, time_delta) ==
    NumDiv(NumMul(current_power, time_delta), Whole(1000))

\* lines 246-249: the trapezoid between two samples, in kWh
EnergyIncrement(current_power, prev_power, time_delta) ==
    LET avg_power == NumDiv(NumAdd(current_power, prev_power), Whole(2))
    IN  NumDiv(NumMul(avg_power, time_delta), Whole(1000))

\* lines 240-251: _total_energy after the tick
EnergyAfter(total, current_power, prev_power, prev_update, current_time) ==
    IF prev_power # NoneV /\ prev_update # NoneV
    THEN LET time_delta == Num(current_time - prev_update.s, 3600)
         IN  IF GapIntegrated(time_delta)
             THEN NumAdd(total, EnergyIncrement(current_power, prev_power, time_delta))
             ELSE total
    ELSE total

\* mutant: the accumulated value is published as it is
Unrounded(total) == total

\* lines 267-270: the native_value property
NativeValue(total) == IF total # Zero THEN Round(total, 6) ELSE Zero

\* mutant: a tick that returns early forgets the previous sample
ReturnDropsSample(st, ran) ==
    [total_energy |-> st.total_energy,
     last_power |-> IF ran = "return" THEN NoneV ELSE st.last_power,
     last_update |-> IF ran = "return" THEN NoneV ELSE st.last_update,
     ran |-> ran]

\* mutant: the time of the sample is stored before the reading is converted
RaiseAfterStore(st, ran) ==
    [total_energy |-> st.total_energy, last_power |-> st.last_power,
     last_update |-> IF ran = "raise" THEN NoneV ELSE st.last_update,
     ran |-> ran]

\* lines 223-236: the method is left (by return, or by the exception of
\* float()) before its first assignment to a field of self
LeftEarly(st, ran) ==
    [total_energy |-> st.total_energy, last_power |-> st.last_power,
     last_update |-> st.last_update, ran |-> ran]

\* _async_integrate from the state st = [total_energy, last_power, last_update];
\* ran says how far it got: "return" (lines 223-233), "raise" (line 236), "write"
Integrate(st, snapshot, source_key, current_time) ==
    LET current_power == IF snapshot = NoneV THEN NoneV ELSE Get(snapshot.m, source_key)
    IN  IF snapshot = NoneV \/ current_power = NoneV
        THEN LeftEarly(st, "return")
        ELSE IF Raised(Float(current_power))
        THEN LeftEarly(st, "raise")
        ELSE [total_energy |-> EnergyAfter(st.total_energy, PowerOf(current_power),
                                           st.last_power, st.last_update, current_time),
              last_power |-> PowerOf(current_power),
              last_update |-> TimeV(current_time),
              ran |-> "write"]

\* hist of a Riemann sensor: the energy the entity object started from, the
\* samples <<raw reading, time>> its ticks recorded, the first value it
\* published, and the number n of samples recorded by all objects so far
RiemannHist(start, n) == [start |-> start, samples |-> <<>>, first |-> NoneV, n |-> n]
Recorded(h, r, snapshot, source_key, current_time, published) ==
    [start |-> h.start,
     samples |-> IF r.ran = "write"
                 THEN Append(h.samples, <<Get(snapshot.m, source_key), current_time>>)
                 ELSE h.samples,
     first |-> IF h.first = NoneV THEN published ELSE h.first,
     n |-> IF r.ran = "write" THEN h.n + 1 ELSE h.n]

\* async_added_to_hass: restore, register the timer, integrate once; the
\* platform then writes the entity's state
RiemannAdded ==
    /\ entity.kind = "riemann"
    /\ PlatformForwarded
    /\ ~added
    /\ hist.n < MaxHist
    /\ LET st == [total_energy |-> RestoreEnergy(stored), last_power |-> NoneV,
                  last_update |-> NoneV]
           r == Integrate(st, CoordinatorData("modbus"), entity.source_key, now)
       IN  /\ total_energy' = r.total_energy
           /\ last_power' = r.last_power
           /\ last_update' = r.last_update
           /\ native_value' = IF r.ran = "raise" THEN native_value
                              ELSE NativeValue(r.total_energy)
           /\ hist' = Recorded(RiemannHist(st.total_energy, hist.n), r, CoordinatorData("modbus"),
                               entity.source_key, now, native_value')
    /\ added' = TRUE
    /\ unsub_interval' = TRUE
    /\ UNCHANGED <<pollVars, now, today, entity, calcVars, stored, reloads>>

\* the timer registered in async_added_to_hass fires: _async_integrate
RiemannTick ==
    /\ entity.kind = "riemann"
    /\ TimerLive
    /\ hist.n < MaxHist
    /\ LET st == [total_energy |-> total_energy, last_power |-> last_power,
                  last_update |-> last_update]
           r == Integrate(st, CoordinatorData("modbus"), entity.source_key, now)
       IN  /\ total_energy' = r.total_energy
           /\ last_power' = r.last_power
           /\ last_update' = r.last_update
           /\ native_value' = IF r.ran = "write" THEN NativeValue(r.total_energy)
                              ELSE native_value
           /\ hist' = Recorded(hist, r, CoordinatorData("modbus"), entity.source_key, now,
                               IF r.ran = "write" THEN native_value' ELSE NoneV)
    /\ UNCHANGED <<pollVars, now, today, entity, added, unsub_interval, calcVars,
                   stored, reloads>>

-----------------------------------------------------------------------------
(* Python arithmetic on the values a Snapshot can hold.  A raised exception
   is the result of every expression it is raised in. *)

\* a - b
PySub(a, b) ==
    IF Raised(a) THEN a ELSE IF Raised(b) THEN b
    ELSE IF IsNum(a) /\ IsNum(b) THEN NumSub(a, b)
    ELSE Raise("TypeError")

\* a + b: numbers add, texts concatenate
PyAdd(a, b) ==
    IF Raised(a) THEN a ELSE IF Raised(b) THEN b
    ELSE IF IsNum(a) /\ IsNum(b) THEN NumAdd(a, b)
    ELSE IF a.t = "str" /\ b.t = "str" THEN Str(a.s \o b.s)
    ELSE Raise("TypeError")

\* a * b: numbers multiply; a text times a whole number is the text repeated
\* (kept as one copy: only its being text is read afterwards)
PyMul(a, b) ==
    IF Raised(a) THEN a ELSE IF Raised(b) THEN b
    ELSE IF IsNum(a) /\ IsNum(b) THEN NumMul(a, b)
    ELSE IF a.t = "str" /\ IsNum(b) /\ b.d = 1 THEN (IF b.n > 0 THEN a ELSE Str(""))
    ELSE IF b.t = "str" /\ IsNum(a) /\ a.d = 1 THEN (IF a.n > 0 THEN b ELSE Str(""))
    ELSE Raise("TypeError")

\* a / b
PyDiv(a, b) ==
    IF Raised(a) THEN a ELSE IF Raised(b) THEN b
    ELSE IF IsNum(a) /\ IsNum(b)
    THEN (IF b = Zero THEN Raise("ZeroDivisionError") ELSE NumDiv(a, b))
    ELSE Raise("TypeError")

\* abs(a)
PyAbs(a) ==
    IF Raised(a) THEN a ELSE IF IsNum(a) THEN NumAbs(a) ELSE Raise("TypeError")

\* a or 0
OrZero(a) == IF a = NoneV \/ a = Zero \/ a = Str("") THEN Zero ELSE a

-----------------------------------------------------------------------------
(* sensor.py: VartaCalculatedSensor *)

DailyKeys == {"dailyNetGridImport", "dailyNetGridExport"}

\* mutant: a date change resets nothing
ResetNever(daily, last_total, reset_date, day) ==
    [daily |-> daily, last_total |-> last_total, reset_date |-> reset_date]

\* mutant: the date change does not clear the reference reading
ResetKeepsReference(daily, last_total, reset_date, day) ==
    IF reset_date # DateV(day)
    THEN [daily |-> Zero, last_total |-> last_total, reset_date |-> DateV(day)]
    ELSE [daily |-> daily, last_total |-> last_total, reset_date |-> reset_date]

\* lines 390-396 and 412-418: the reset at midnight
ResetAtMidnight(daily, last_total, reset_date, day) ==
    IF reset_date # DateV(day)
    THEN [daily |-> Zero, last_total |-> NoneV, reset_date |-> DateV(day)]
    ELSE [daily |-> daily, last_total |-> last_total, reset_date |-> reset_date]

\* mutant: a decrease of the counter starts the accumulator again
DeltaOrRestart(daily, delta) ==
    IF NumLt(Zero, delta) THEN NumAdd(daily, delta) ELSE Zero

\* mutant: a decrease of the counter is subtracted
DeltaAlwaysApplied(daily, delta) == NumAdd(daily, delta)

\* lines 404-405 and 426-427: if delta > 0: daily += delta
DeltaApplied(daily, delta) ==
    IF NumLt(Zero, delta) THEN NumAdd(daily, delta) ELSE daily

\* cgi_data.get(key): a coordinator without data has None there, and None
\* has no get
DataGet(cgi_data, key) ==
    IF cgi_data = NoneV THEN Raise("AttributeError") ELSE Get(cgi_data, key)
DataGetDefault(cgi_data, key, default) ==
    IF cgi_data = NoneV THEN Raise("AttributeError")
    ELSE GetDefault(cgi_data, key, default)

\* mutant: a missing counter clears the reference and publishes nothing
MissingForgets(r) ==
    [daily |-> r.daily, last_total |-> NoneV,
     reset_date |-> r.reset_date, value |-> NoneV]

\* lines 399-400 and 421-422: the counter is missing, return the accumulator
Missing(r) ==
    [daily |-> r.daily, last_total |-> r.last_total,
     reset_date |-> r.reset_date, value |-> r.daily]

\* lines 398-408 and 420-430, after the reset r: the accumulator, the
\* reference reading and what the function returns (or raises)
DailyStep(r, current_total) ==
    IF Raised(current_total)
    THEN [daily |-> r.daily, last_total |-> r.last_total,
          reset_date |-> r.reset_date, value |-> current_total]
    ELSE IF current_total = NoneV
    THEN Missing(r)
    ELSE IF r.last_total # NoneV /\ Raised(PySub(current_total, r.last_total))
    THEN [daily |-> r.daily, last_total |-> r.last_total,
          reset_date |-> r.reset_date, value |-> PySub(current_total, r.last_total)]
    ELSE LET daily == IF r.last_total # NoneV
                      THEN DeltaApplied(r.daily, PySub(current_total, r.last_total))
                      ELSE r.daily
         IN  [daily |-> daily, last_total |-> current_total,
              reset_date |-> r.reset_date, value |-> Round(daily, 3)]

calculate_daily_net_import(st, cgi_data, day) ==
    LET r == ResetAtMidnight(st.daily_import, st.last_import_total,
                             st.last_reset_date, day)
        s == DailyStep(r, DataGet(cgi_data, "total_grid_ac_dc"))
    IN  [daily_import |-> s.daily, daily_export |-> st.daily_export,
         last_import_total |-> s.last_total,
         last_export_total |-> st.last_export_total,
         last_reset_date |-> s.reset_date, value |-> s.value]

calculate_daily_net_export(st, cgi_data, day) ==
    LET r == ResetAtMidnight(st.daily_export, st.last_export_total,
                             st.last_reset_date, day)
        s == DailyStep(r, DataGet(cgi_data, "total_grid_dc_ac"))
    IN  [daily_import |-> st.daily_import, daily_export |-> s.daily,
         last_import_total |-> st.last_import_total,
         last_export_total |-> s.last_total,
         last_reset_date |-> s.reset_date, value |-> s.value]

\* mutant: the efficiency is not capped
Uncapped(efficiency) == efficiency

\* line 444: min(efficiency, 100.0)
Capped(efficiency) == NumMin(efficiency, Whole(100))

\* mutant: the rate is not clamped
Unclamped(rate) == rate

\* lines 467 and 488: min(max(rate, 0.0), 100.0)
Clamped(rate) == NumMin(NumMax(rate, Zero), Whole(100))

\* mutant: what is exported counts as consumed
SelfConsumedIsExport(total_generation, grid_export) == grid_export

\* line 486: self_consumed = total_generation - grid_export
SelfConsumed(total_generation, grid_export) == PySub(total_generation, grid_export)

calculate_battery_efficiency(cgi_data) ==
    LET charged == DataGet(cgi_data, "total_inverter_ac_dc")
        discharged == DataGet(cgi_data, "total_inverter_dc_ac")
    IN  IF Raised(charged) THEN charged
        ELSE IF charged = NoneV \/ discharged = NoneV \/ charged = Zero THEN NoneV
        ELSE LET efficiency == PyMul(PyDiv(discharged, charged), Whole(100))
             IN  IF Raised(efficiency) THEN efficiency
                 ELSE Capped(efficiency)

calculate_self_sufficiency(modbus_data, cgi_data) ==
    LET grid_import == DataGetDefault(cgi_data, "total_grid_ac_dc", Zero)
        battery_discharge == DataGetDefault(cgi_data, "total_inverter_dc_ac", Zero)
        total_consumption == PyAdd(grid_import, battery_discharge)
        rate == PyMul(PyDiv(battery_discharge, total_consumption), Whole(100))
    IN  IF Raised(grid_import) THEN grid_import
        ELSE IF grid_import = NoneV \/ battery_discharge = NoneV THEN NoneV
        ELSE IF Raised(total_consumption) THEN total_consumption
        ELSE IF total_consumption = Zero THEN Whole(100)
        ELSE IF Raised(rate) THEN rate
        ELSE Clamped(rate)

calculate_self_consumption(modbus_data, cgi_data) ==
    LET grid_export == DataGetDefault(cgi_data, "total_grid_dc_ac", Zero)
        battery_charge == DataGetDefault(cgi_data, "total_inverter_ac_dc", Zero)
        total_generation == PyAdd(grid_export, battery_charge)
        self_consumed == SelfConsumed(total_generation, grid_export)
        rate == PyMul(PyDiv(self_consumed, total_generation), Whole(100))
    IN  IF Raised(grid_export) THEN grid_export
        ELSE IF grid_export = NoneV \/ battery_charge = NoneV THEN NoneV
        ELSE IF Raised(total_generation) THEN total_generation
        ELSE IF total_generation = Zero THEN Whole(100)
        ELSE IF Raised(rate) THEN rate
        ELSE Clamped(rate)

calculate_available_energy(modbus_data) ==
    LET soc == Get(modbus_data, "soc")
        capacity == Get(modbus_data, "installed_capacity")
    IN  IF soc = NoneV \/ capacity = NoneV THEN NoneV
        ELSE PyDiv(PyMul(soc, capacity), Whole(100))

\* x <= 0 raises TypeError for text
LeZeroRaises(x) == ~IsNum(x)

\* mutant: only a negative power is turned away
Negative(power) == NumLt(power, Zero)

\* lines 513 and 527: discharge_power <= 0, charge_power <= 0
NotPositive(power) == NumLe(power, Zero)

calculate_time_to_empty(modbus_data) ==
    LET available == calculate_available_energy(modbus_data)
        discharge_power == GetDefault(modbus_data, "discharge_power", Zero)
    IN  IF Raised(available) THEN available
        ELSE IF available = NoneV \/ discharge_power = NoneV THEN NoneV
        ELSE IF LeZeroRaises(discharge_power) THEN Raise("TypeError")
        ELSE IF NotPositive(discharge_power) THEN NoneV
        ELSE PyMul(PyDiv(available, discharge_power), Whole(60))

calculate_time_to_full(modbus_data) ==
    LET soc == Get(modbus_data, "soc")
        capacity == Get(modbus_data, "installed_capacity")
        charge_power == GetDefault(modbus_data, "charge_power", Zero)
        remaining_capacity ==
            PyDiv(PyMul(capacity, PySub(Whole(100), soc)), Whole(100))
    IN  IF soc = NoneV \/ capacity = NoneV \/ charge_power = NoneV THEN NoneV
        ELSE IF LeZeroRaises(charge_power) THEN Raise("TypeError")
        ELSE IF NotPositive(charge_power) THEN NoneV
        ELSE PyMul(PyDiv(remaining_capacity, charge_power), Whole(60))

calculate_total_power_flow(modbus_data) ==
    LET charge == PyAbs(OrZero(GetDefault(modbus_data, "charge_power", Zero)))
        discharge == PyAbs(OrZero(GetDefault(modbus_data, "discharge_power", Zero)))
    IN  PyAdd(charge, discharge)

\* the daily tracking state of the entity object
CalcState ==
    [daily_import |-> daily_import, daily_export |-> daily_export,
     last_import_total |-> last_import_total,
     last_export_total |-> last_export_total,
     last_reset_date |-> last_reset_date]

\* mutant: no exception is caught
CaughtNothing(value) == value

\* mutant: no metric is computed while the secondary channel is failing
NoneWhileCgiFails(value) ==
    IF outcome["cgi"] \in {"UpdateFailed", "TimeoutError"} THEN NoneV ELSE value

\* lines 361-383: the value of the metric, None for a caught exception
Caught(value) ==
    IF Raised(value) /\ value.e \in {"KeyError", "TypeError", "ZeroDivisionError"}
    THEN NoneV ELSE value

\* _async_calculate from the daily tracking state st: the state after it, the
\* value it publishes, and ran: "return" (line 353), "write" (line 386) or
\* "raise" (an exception the except clause does not catch)
Calculate(st, key, modbus, cgi_data, day) ==
    IF modbus = NoneV
    THEN [daily_import |-> st.daily_import, daily_export |-> st.daily_export,
          last_import_total |-> st.last_import_total,
          last_export_total |-> st.last_export_total,
          last_reset_date |-> st.last_reset_date, value |-> NoneV, ran |-> "return"]
    ELSE LET d == IF key = "dailyNetGridImport"
                  THEN calculate_daily_net_import(st, cgi_data, day)
                  ELSE IF key = "dailyNetGridExport"
                  THEN calculate_daily_net_export(st, cgi_data, day)
                  ELSE st
             value ==
                 IF key \in DailyKeys THEN d.value
                 ELSE IF key = "batteryEfficiency"
                 THEN calculate_battery_efficiency(cgi_data)
                 ELSE IF key = "selfSufficiencyRate"
                 THEN calculate_self_sufficiency(modbus.m, cgi_data)
                 ELSE IF key = "selfConsumptionRate"
                 THEN calculate_self_consumption(modbus.m, cgi_data)
                 ELSE IF key = "availableEnergy"
                 THEN calculate_available_energy(modbus.m)
                 ELSE IF key = "timeToEmpty"
                 THEN calculate_time_to_empty(modbus.m)
                 ELSE IF key = "timeToFull"
                 THEN calculate_time_to_full(modbus.m)
                 ELSE IF key = "totalPowerFlow"
                 THEN calculate_total_power_flow(modbus.m)
                 ELSE NoneV
         IN  [daily_import |-> d.daily_import, daily_export |-> d.daily_export,
              last_import_total |-> d.last_import_total,
              last_export_total |-> d.last_export_total,
              last_reset_date |-> d.last_reset_date,
              value |-> Caught(value),
              ran |-> IF Raised(Caught(value)) THEN "raise" ELSE "write"]

\* mutant: without a CGI coordinator the entity reads None, not {}
CgiDataUnguarded ==
    IF CoordinatorData("cgi") = NoneV THEN NoneV ELSE CoordinatorData("cgi").m

\* line 356: the CGI Snapshot the entity reads, {} without a CGI coordinator
CgiData ==
    IF "cgi" \in coordinators
    THEN (IF CoordinatorData("cgi") = NoneV THEN NoneV
          ELSE CoordinatorData("cgi").m)
    ELSE EmptyDict

\* the counter a daily sensor reads
CounterKey(key) ==
    IF key = "dailyNetGridImport" THEN "total_grid_ac_dc" ELSE "total_grid_dc_ac"

\* lines 323-332: what async_added_to_hass restores from last_state
RestoredValue(key, last_state) ==
    IF key \in DailyKeys /\ last_state # NoneV /\ ~Raised(Float(last_state.state))
    THEN Float(last_state.state) ELSE NoneV
RestoredDate(key, last_state) ==
    IF key \in DailyKeys /\ last_state # NoneV /\ ~Raised(Float(last_state.state))
    THEN last_state.last_reset_date ELSE NoneV

\* hist of a calculated sensor: the counter readings its ticks took since the
\* accumulator last started from 0 (a new object or a date change), the
\* accumulated value the last date change dropped, and the number n of
\* readings taken by all objects so far
CalcHist(n) == [readings |-> <<>>, dropped |-> NoneV, n |-> n]
CalcRecorded(h, key, before, after, cgi_data) ==
    IF key \notin DailyKeys \/ after.ran # "write" THEN h
    ELSE LET current_total == Get(cgi_data, CounterKey(key))
             reset == before.last_reset_date # after.last_reset_date
             kept == IF reset THEN <<>> ELSE h.readings
         IN  [readings |-> IF current_total = NoneV THEN kept
                           ELSE Append(kept, current_total),
              dropped |-> IF reset
                          THEN (IF key = "dailyNetGridImport"
                                THEN before.daily_import ELSE before.daily_export)
                          ELSE h.dropped,
              n |-> IF current_total = NoneV THEN h.n ELSE h.n + 1]

\* a daily sensor has a tick left to take a reading
MayRead == entity.key \in DailyKeys => hist.n < MaxReadings

CalcApply(r) ==
    /\ daily_import' = r.daily_import
    /\ daily_export' = r.daily_export
    /\ last_import_total' = r.last_import_total
    /\ last_export_total' = r.last_export_total
    /\ last_reset_date' = r.last_reset_date

\* async_added_to_hass: restore, register the timer, calculate once; the
\* platform then writes the entity's state
CalcAdded ==
    /\ entity.kind = "calc"
    /\ PlatformForwarded
    /\ ~added
    /\ MayRead
    /\ LET st == [CalcState EXCEPT
                     !.last_reset_date = RestoredDate(entity.key, stored)]
           r == Calculate(st, entity.key, CoordinatorData("modbus"), CgiData, today)
       IN  /\ CalcApply(r)
           /\ native_value' = IF r.ran = "write" THEN r.value
                              ELSE RestoredValue(entity.key, stored)
           /\ hist' = CalcRecorded(CalcHist(hist.n), entity.key, st, r, CgiData)
    /\ added' = TRUE
    /\ unsub_interval' = TRUE
    /\ UNCHANGED <<pollVars, now, today, entity, riemannVars, stored, reloads>>

\* the timer registered in async_added_to_hass fires: _async_calculate
CalcTick ==
    /\ entity.kind = "calc"
    /\ TimerLive
    /\ MayRead
    /\ LET r == Calculate(CalcState, entity.key, CoordinatorData("modbus"), CgiData, today)
       IN  /\ CalcApply(r)
           /\ native_value' = IF r.ran = "write" THEN r.value ELSE native_value
           /\ hist' = CalcRecorded(hist, entity.key, CalcState, r, CgiData)
    /\ UNCHANGED <<pollVars, now, today, entity, added, unsub_interval,
                   riemannVars, stored, reloads>>

-----------------------------------------------------------------------------
(* The environment: clock, calendar, reload of the config entry *)

ClockSteps == {1200, 3600}

\* time passes between two callbacks of the entity (only elapsed time is
\* read, so the clock stands still while no tick is left to read it)
Advance ==
    /\ added
    /\ entity.kind = "riemann" /\ hist.n < MaxHist
    /\ \E dt \in ClockSteps : now + dt <= MaxTime /\ now' = now + dt
    /\ UNCHANGED <<pollVars, today, entity, added, unsub_interval, riemannVars,
                   calcVars, native_value, stored, reloads, hist>>

\* the local calendar date changes (only the daily sensors read the date)
Midnight ==
    /\ entity.key \in DailyKeys
    /\ today < MaxDay
    /\ today' = today + 1
    /\ UNCHANGED <<pollVars, now, entity, added, unsub_interval, riemannVars,
                   calcVars, native_value, stored, reloads, hist>>

\* the state the StateStore keeps of the entity when it is removed: the last
\* state written, or the text "unavailable" the platform writes for an entity
\* whose coordinator's last refresh failed
KeptStates ==
    LET date == IF entity.key \in {"dailyNetGridImport", "dailyNetGridExport"}
                THEN last_reset_date ELSE NoneV
    IN  {StateOf(StateText(native_value), date)}
        \cup (IF outcome["modbus"] # "success"
              THEN {StateOf(Str("unavailable"), date)} ELSE {})

\* async_reload_entry (or a restart of the host): the entry is unloaded and
\* set up again with new coordinators and new entity objects; a sync_update
\* still running is abandoned
Reload ==
    /\ setupStep = "done"
    /\ reloads < MaxReloads
    /\ reloads' = reloads + 1
    /\ \A ch \in Channels : pc[ch] # "idle" => orphans[ch] < MaxOrphans
    /\ orphans' = [ch \in Channels |-> InFlight(ch)]
    /\ setupStep' = "modbus"
    /\ coordinators' = {}
    /\ NewCoordinators
    /\ NewEntity
    /\ IF added THEN stored' \in KeptStates ELSE stored' = stored
    /\ hist' = IF entity.kind = "riemann" THEN RiemannHist(NoneV, hist.n)
               ELSE IF entity.kind = "calc" THEN CalcHist(hist.n)
               ELSE hist
    /\ UNCHANGED <<cgi, now, today, entity>>

\* the host retries async_setup_entry after ConfigEntryNotReady
RetrySetup ==
    /\ setupStep = "failed"
    /\ setupStep' = "modbus"
    /\ NewCoordinators
    /\ UNCHANGED <<cgi, coordinators, orphans, now, today, entity, added,
                   unsub_interval, riemannVars, calcVars, native_value, stored,
                   reloads, hist>>

-----------------------------------------------------------------------------
(* Specifications *)

entityVars == <<now, today, entity, added, unsub_interval, riemannVars, calcVars,
                native_value, stored, reloads, hist>>

InitCommon ==
    /\ setupStep = "modbus"
    /\ coordinators = {}
    /\ NoCoordinatorState
    /\ orphans = [ch \in Channels |-> 0]
    /\ now = 0
    /\ today = 1
    /\ reloads = 0
    /\ NewEntityState

\* the two coordinators alone
Init ==
    /\ cgi \in BOOLEAN
    /\ entity = NoEntity
    /\ stored = NoneV
    /\ hist = NoneV
    /\ InitCommon

Next ==
    \/ \E ch \in Channels : StartFetch(ch) /\ UNCHANGED entityVars
    \/ \E ch \in Channels : FirstAttempt(ch) /\ UNCHANGED entityVars
    \/ \E ch \in Channels : SecondAttempt(ch) /\ UNCHANGED entityVars
    \/ \E ch \in Channels : Timeout(ch) /\ UNCHANGED entityVars
    \/ \E ch \in Channels : OrphanReturns(ch) /\ UNCHANGED entityVars
    \/ RetrySetup
    \/ Reload

Spec == Init /\ [][Next]_vars

\* the same, with the event loop's timer: a timeout that is due fires
SpecLive ==
    Spec /\ \A ch \in Channels : WF_vars(Timeout(ch) /\ UNCHANGED entityVars)

\* one Riemann sensor on the modbus coordinator; the StateStore is empty or
\* holds a text: the 5.0 kWh an earlier run published, "-3.0", or "unknown".  The four sensors differ only
\* in the field they read; the two on the battery powers are explored.
InitRiemann ==
    /\ cgi = FALSE
    /\ entity \in {e \in RiemannEntities :
                     e.source_key \in {"charge_power", "discharge_power"}}
    /\ stored \in {NoneV, StateOf(Whole(5), NoneV), StateOf(Whole(0 - 3), NoneV),
                  StateOf(Str("unknown"), NoneV)}
    /\ hist = RiemannHist(NoneV, 0)
    /\ InitCommon

NextRiemann ==
    \/ Refresh("modbus") /\ UNCHANGED entityVars
    \/ RetrySetup
    \/ Reload
    \/ Advance
    \/ RiemannAdded
    \/ RiemannTick

SpecRiemann == InitRiemann /\ [][NextRiemann]_vars

\* one calculated sensor on both coordinators, with and without the CGI
\* channel; the StateStore is empty at first and is filled by a reload
InitCalc ==
    /\ cgi \in BOOLEAN
    /\ entity \in CalcEntities
    /\ stored = NoneV
    /\ hist = CalcHist(0)
    /\ InitCommon

NextCalc ==
    \/ \E ch \in Channels : Refresh(ch) /\ UNCHANGED entityVars
    \/ RetrySetup
    \/ Reload
    \/ Midnight
    \/ CalcAdded
    \/ CalcTick

SpecCalc == InitCalc /\ [][NextCalc]_vars

\* the values a cumulative counter of the energy reply is drawn from: absent
\* (None), zero, negative, positive, text
CounterValues ==
    {NoneV, Zero, Whole(0 - 4), Whole(4), Whole(10), Whole(12), Str("n/a")}

\* the CGI Snapshot after a refresh whose energy reply carried these counters
SnapshotWith(grid_import, grid_export, charged, discharged) ==
    Snapshot(flatten_dataclass(
        DC(<< <<"total_grid_ac_dc", grid_import>>,
              <<"total_grid_dc_ac", grid_export>>,
              <<"total_inverter_ac_dc", charged>>,
              <<"total_inverter_dc_ac", discharged>> >>)))

RateKeys == {"batteryEfficiency", "selfSufficiencyRate", "selfConsumptionRate"}

\* the values the registers of the modbus reply are drawn from: absent (None),
\* zero, negative, positive, text
SocValues == {NoneV, Zero, Whole(35), Whole(100), Str("n/a")}
CapacityValues == {NoneV, Zero, Whole(5000)}
PowerValues == {NoneV, Zero, Whole(0 - 50), Whole(100), Whole(2500), Str("n/a")}

\* the modbus Snapshot after a refresh whose reply carried these registers
ModbusWith(soc, installed_capacity, charge_power, discharge_power) ==
    Snapshot(flatten_dataclass(
        DC(<< <<"soc", soc>>,
              <<"installed_capacity", installed_capacity>>,
              <<"charge_power", charge_power>>,
              <<"discharge_power", discharge_power>> >>)))

TimeKeys == {"timeToEmpty", "timeToFull"}

\* one sensor of a set-up entry: a rate sensor with a CGI Snapshot of any
\* counters, or a time sensor with a modbus Snapshot of any registers
InitMetric ==
    /\ cgi = TRUE
    /\ setupStep = "done"
    /\ coordinators = Registered
    /\ \/ /\ entity \in {e \in CalcEntities : e.key \in RateKeys}
          /\ \E a, b, c, d \in CounterValues :
                data = [ch \in Channels |->
                           IF ch = "modbus" THEN ModbusResults[1]
                           ELSE SnapshotWith(a, b, c, d)]
       \/ /\ entity \in {e \in CalcEntities : e.key \in TimeKeys}
          /\ \E soc \in SocValues, capacity \in CapacityValues,
                charge \in PowerValues, discharge \in PowerValues :
                data = [ch \in Channels |->
                           IF ch = "modbus"
                           THEN ModbusWith(soc, capacity, charge, discharge)
                           ELSE CgiResults[1][1]]
    /\ outcome = [ch \in Channels |-> "success"]
    /\ pc = [ch \in Channels |-> "idle"]
    /\ tries = [ch \in Channels |-> NoTries]
    /\ ems_data = [ch \in Channels |-> 0]
    /\ orphans = [ch \in Channels |-> 0]
    /\ now = 0
    /\ today = 1
    /\ reloads = 0
    /\ NewEntityState
    /\ stored = NoneV
    /\ hist = CalcHist(0)

NextMetric ==
    \/ CalcAdded
    \/ CalcTick

SpecMetric == InitMetric /\ [][NextMetric]_vars

\* the removal of an entity on its own: one Riemann sensor or one calculated
\* sensor on the modbus coordinator
InitRemove ==
    /\ cgi = FALSE
    /\ entity \in {e \in RiemannEntities : e.source_key = "charge_power"}
                 \cup {e \in CalcEntities : e.key \in {"availableEnergy", "timeToFull"}}
    /\ stored = NoneV
    /\ hist = IF entity.kind = "riemann" THEN RiemannHist(NoneV, 0) ELSE CalcHist(0)
    /\ InitCommon

NextRemove ==
    \/ Refresh("modbus") /\ UNCHANGED entityVars
    \/ RetrySetup
    \/ Reload
    \/ Advance
    \/ RiemannAdded
    \/ RiemannTick
    \/ CalcAdded
    \/ CalcTick
    \/ WillRemove

SpecRemove == InitRemove /\ [][NextRemove]_vars

\* the ticks of one entity between the steps of the poll cycles: an integrator,
\* a metric on three modbus fields, a metric on two CGI fields
InitInterleaved ==
    /\ \/ /\ cgi = FALSE
          /\ entity \in {e \in RiemannEntities : e.source_key = "charge_power"}
                       \cup {e \in CalcEntities : e.key = "timeToFull"}
       \/ /\ cgi = TRUE
          /\ entity \in {e \in CalcEntities : e.key = "selfSufficiencyRate"}
    /\ stored = NoneV
    /\ hist = IF entity.kind = "riemann" THEN RiemannHist(NoneV, 0) ELSE CalcHist(0)
    /\ InitCommon

NextInterleaved ==
    \/ \E ch \in Channels : StartFetch(ch) /\ UNCHANGED entityVars
    \/ \E ch \in Channels : FirstAttempt(ch) /\ UNCHANGED entityVars
    \/ \E ch \in Channels : SecondAttempt(ch) /\ UNCHANGED entityVars
    \/ RetrySetup
    \/ RiemannAdded
    \/ RiemannTick
    \/ CalcAdded
    \/ CalcTick

SpecInterleaved == InitInterleaved /\ [][NextInterleaved]_vars

\* an outage of one channel after setup: the secondary channel where it is
\* enabled, else the primary.  The first refresh succeeds (setup completes),
\* no later poll of that channel does, and the timers fire once its first
\* poll has failed.  The entities are the integrators and, with the secondary
\* channel, the metrics computed from the primary Snapshot alone.
Down == IF cgi THEN "cgi" ELSE "modbus"

PrimaryKeys == {"availableEnergy", "timeToEmpty", "timeToFull", "totalPowerFlow"}

InitOutage ==
    /\ \/ /\ cgi = FALSE
          /\ entity \in {e \in RiemannEntities :
                           e.source_key \in {"charge_power", "discharge_power"}}
       \/ /\ cgi = TRUE
          /\ entity \in {e \in RiemannEntities : e.source_key = "charge_power"}
                       \cup {e \in CalcEntities : e.key \in PrimaryKeys}
    /\ stored = NoneV
    /\ hist = IF entity.kind = "riemann" THEN RiemannHist(NoneV, 0) ELSE CalcHist(0)
    /\ InitCommon

NextOutage ==
    \/ \E ch \in Channels :
          /\ Refresh(ch)
          /\ (PlatformForwarded /\ ch = Down) => outcome'[ch] # "success"
          /\ UNCHANGED entityVars
    \/ RetrySetup
    \/ Advance
    \/ RiemannAdded
    \/ RiemannTick /\ outcome[Down] # "success"
    \/ CalcAdded
    \/ CalcTick /\ outcome[Down] # "success"

SpecOutage == InitOutage /\ [][NextOutage]_vars

\* the objects get_all_data_modbus() is taken to return, for flatten_dataclass
\* alone: dataclass instances over two field names, nested up to two levels,
\* dicts of such instances, scalars and None
FieldNames == {"a", "b"}
LeafValues == {NoneV, Whole(1), Whole(2)}
\* the field lists of a dataclass (or the items of a dict): distinct names
FieldLists(values) ==
    {<<>>}
    \cup {<< <<n, v>> >> : n \in FieldNames, v \in values}
    \cup {<< <<n[1], v>>, <<n[2], w>> >> :
             n \in {<<"a", "b">>, <<"b", "a">>}, v \in values, w \in values}
Records1 == {DC(fs) : fs \in FieldLists(LeafValues)}
Records2 == {DC(fs) : fs \in FieldLists(LeafValues \cup Records1)}
Dicts ==
    {DictV(fs) : fs \in FieldLists(LeafValues \cup Records1)}
    \cup {DictV(<< <<n, v>> >>) : n \in FieldNames, v \in Records2}
OtherShapes == {NoneV, Whole(1), Str("ok"), ListV(<<Whole(7), Whole(8)>>)}
FlattenInputs == Records2 \cup Dicts \cup OtherShapes

\* the first refresh of the modbus coordinator when the device returns obj:
\* line 123 flattens it; tries records the object returned
FetchReturns(obj) ==
    /\ setupStep = "modbus"
    /\ MayStart("modbus")
    /\ tries' = [tries EXCEPT !["modbus"] = <<[ok |-> TRUE, r |-> obj]>>]
    /\ Finish("modbus", "success", Snapshot(flatten_dataclass(obj)))
    /\ UNCHANGED <<cgi, orphans>>

\* the dicts that hold the entries of the flat dict m, in any item order
ItemOrders(m) ==
    LET n == Cardinality(DOMAIN m)
    IN  {[i \in 1..n |-> <<ks[i], m[ks[i]]>>] :
            ks \in {f \in [1..n -> DOMAIN m] :
                       \A i, j \in 1..n : i # j => f[i] # f[j]}}

\* the next refresh of the modbus coordinator when the device returns a dict
\* with the entries cached before: line 123 flattens it by lines 36-41
FetchReturnsCached ==
    /\ setupStep = "done"
    /\ MayStart("modbus")
    /\ Len(tries["modbus"]) = 1
    /\ data["modbus"] # NoneV
    /\ \E fs \in ItemOrders(data["modbus"].m) :
          /\ tries' = [tries EXCEPT !["modbus"] =
                           Append(@, [ok |-> TRUE, r |-> DictV(fs)])]
          /\ Finish("modbus", "success", Snapshot(flatten_dataclass(DictV(fs))))
    /\ UNCHANGED <<cgi, orphans>>

InitFlatten ==
    /\ cgi = FALSE
    /\ entity = NoEntity
    /\ stored = NoneV
    /\ hist = NoneV
    /\ InitCommon

NextFlatten ==
    \/ \E obj \in FlattenInputs : FetchReturns(obj) /\ UNCHANGED entityVars
    \/ FetchReturnsCached /\ UNCHANGED entityVars
    \/ Reload

SpecFlatten == InitFlatten /\ [][NextFlatten]_vars

-----------------------------------------------------------------------------
(* Claims about the polling coordinators (Spec) *)

BothFailed(t) == Len(t) = 2 /\ ~t[1].ok /\ ~t[2].ok
RetryAbsorbed(t) == Len(t) = 2 /\ ~t[1].ok /\ t[2].ok

\* C1: a poll cycle whose two attempts both fail ends, after exactly those two
\* attempts, as UpdateFailed, and no step of the cycle changes the cache
C1_BothFailKeepsSnapshot ==
    [][\A ch \in Channels :
         /\ (tries'[ch] # tries[ch] /\ BothFailed(tries'[ch]))
                => /\ outcome'[ch] = "UpdateFailed"
                   /\ pc'[ch] = "idle"
                   /\ data'[ch] = data[ch]
         /\ (pc[ch] # "idle" /\ pc'[ch] # "idle") => data'[ch] = data[ch]]_vars

\* both channels have just failed twice; the primary keeps its earlier Snapshot
C1_Witness ==
    /\ BothFailed(tries["modbus"]) /\ outcome["modbus"] = "UpdateFailed"
    /\ data["modbus"] # NoneV
    /\ BothFailed(tries["cgi"]) /\ outcome["cgi"] = "UpdateFailed"
    /\ data["cgi"] # NoneV

\* C2: a poll cycle whose first attempt fails and whose second succeeds ends
\* as a success, and the cache is the flattened reply of the second attempt
C2_RetryAbsorbsOneFailure ==
    \A ch \in Channels :
        (pc[ch] = "idle" /\ RetryAbsorbed(tries[ch]))
            => /\ outcome[ch] = "success"
               /\ data[ch] = SyncResult(ch, tries[ch][2].r, tries[ch][2].r)

\* both channels absorbed a failed first attempt
C2_Witness ==
    /\ pc["cgi"] = "idle" /\ RetryAbsorbed(tries["cgi"])
    /\ pc["modbus"] = "idle" /\ RetryAbsorbed(tries["modbus"])
    /\ data["cgi"] = SyncResult("cgi", 2, 2)

\* C11: a poll cycle cut off by the timeout ends for the coordinator as
\* TimeoutError, which is not the UpdateFailed of two failed attempts, and
\* leaves the cache alone; and while the timeout can still be armed, a cycle
\* whose device call never returns does end
C11_TimeoutEndsCycleDistinctly ==
    /\ [][\A ch \in Channels :
             (orphans'[ch] = orphans[ch] + 1 /\ reloads' = reloads)
                 => /\ pc[ch] # "idle" /\ pc'[ch] = "idle"
                    /\ outcome'[ch] = "TimeoutError"
                    /\ outcome'[ch] # "UpdateFailed"
                    /\ data'[ch] = data[ch]]_vars
    /\ \A ch \in Channels :
           (pc[ch] # "idle" /\ orphans[ch] < MaxOrphans) ~> (pc[ch] = "idle")

\* the secondary channel timed out after setup and keeps its Snapshot, while
\* the abandoned sync_update is still running
C11_Witness ==
    /\ setupStep = "done"
    /\ outcome["cgi"] = "TimeoutError"
    /\ data["cgi"] # NoneV
    /\ orphans["cgi"] = 1
    /\ pc["cgi"] = "idle"

Failed(kind) == kind \in {"UpdateFailed", "TimeoutError"}
PollEndsFailed(ch) == outcome'[ch] # outcome[ch] /\ Failed(outcome'[ch])
PollEndsWell(ch) ==
    /\ pc[ch] # "idle" /\ pc'[ch] = "idle"
    /\ tries'[ch] # tries[ch]
    /\ tries'[ch][Len(tries'[ch])].ok

\* C14: once setup is done, a poll that fails leaves setup done, the
\* coordinators registered and the Snapshot in place; a coordinator whose
\* last poll failed can start its next poll; and a poll that then succeeds
\* puts its reply in the cache
C14_FailedPollKeepsPolling ==
    /\ [][\A ch \in Channels :
             (setupStep = "done" /\ reloads' = reloads)
                 => /\ setupStep' = "done"
                    /\ coordinators' = coordinators
                    /\ PollEndsFailed(ch) => data'[ch] = data[ch]
                    /\ (Failed(outcome[ch]) /\ PollEndsWell(ch))
                           => /\ outcome'[ch] = "success"
                              /\ LET r == tries'[ch][Len(tries'[ch])].r
                                 IN  data'[ch] = SyncResult(ch, r, r)]_vars
    /\ [](\A ch \in Channels :
             (setupStep = "done" /\ ch \in coordinators
              /\ Failed(outcome[ch]) /\ pc[ch] = "idle")
                 => ENABLED (StartFetch(ch) /\ UNCHANGED entityVars))

\* after a failed poll of a set-up secondary channel the next poll has
\* started, and the Snapshot is still there
C14_Witness ==
    /\ setupStep = "done" /\ reloads = 0
    /\ outcome["cgi"] = "UpdateFailed"
    /\ pc["cgi"] = "second"
    /\ data["cgi"] # NoneV

\* C10: at most one sync_update of a channel is running at any time
C10_SingleFetchInFlight == \A ch \in Channels : InFlight(ch) <= 1

-----------------------------------------------------------------------------
(* Claims about the Riemann sensor (SpecRiemann) *)

\* C3: from 0 kWh, two ticks 3600 s apart that both read 100 W leave 0.1 kWh
C3_OneHourAt100W ==
    (/\ entity.kind = "riemann" /\ added
     /\ hist.start = Zero
     /\ Len(hist.samples) = 2
     /\ hist.samples[1][1] = Whole(100)
     /\ hist.samples[2][1] = Whole(100)
     /\ hist.samples[2][2] - hist.samples[1][2] = 3600)
        => total_energy = Num(1, 10)

\* C4: while the entity object lives (no restart), no step decreases
\* _total_energy
C4_EnergyNeverDecreases ==
    [][(added /\ added') => NumLe(total_energy, total_energy')]_vars

\* an interval that ends in a negative reading has been integrated
C4_Witness ==
    /\ added
    /\ Len(hist.samples) = 2
    /\ hist.samples[2][1] = Whole(0 - 50)
    /\ NumLt(hist.start, total_energy)

\* C5: after a restart with a persisted number v the first value published is
\* v, and the first recorded sample adds nothing to it
C5_RestartPublishesPersisted ==
    (/\ entity.kind = "riemann" /\ added
     /\ stored # NoneV /\ IsNum(stored.state))
        => /\ hist.first # NoneV => hist.first = stored.state
           /\ Len(hist.samples) <= 1 => total_energy = stored.state

\* the value restored was published by the run before the reload
C5_Witness ==
    /\ entity.kind = "riemann" /\ added /\ reloads = 1
    /\ stored # NoneV /\ IsNum(stored.state) /\ stored.state.d > 1
    /\ hist.first = stored.state
    /\ Len(hist.samples) = 1

\* the trapezoid between two recorded samples <<reading, time>>, in kWh
Trapezoid(s1, s2) ==
    NumDiv(NumMul(NumDiv(NumAdd(NumAbs(s1[1]), NumAbs(s2[1])), Whole(2)),
                  Num(s2[2] - s1[2], 3600)),
           Whole(1000))
Gap(samples, i) == samples[i + 1][2] - samples[i][2]

\* C15: two samples more than an hour apart add nothing, and the later one
\* is the previous sample of the next interval, which is integrated as usual
C15_LongGapSkipped ==
    (entity.kind = "riemann" /\ added)
        => /\ (Len(hist.samples) >= 2 /\ Gap(hist.samples, 1) > 3600 * CeilingHours)
                  => /\ Len(hist.samples) = 2 => total_energy = hist.start
                     /\ (Len(hist.samples) = 3 /\ Gap(hist.samples, 2) < 3600 * CeilingHours)
                            => total_energy =
                                   NumAdd(hist.start,
                                          Trapezoid(hist.samples[2], hist.samples[3]))
           /\ Len(hist.samples) >= 1
                  => /\ last_update = TimeV(hist.samples[Len(hist.samples)][2])
                     /\ last_power = NumAbs(hist.samples[Len(hist.samples)][1])

\* a gap of two hours, then an interval of 20 minutes that added energy
C15_Witness ==
    /\ entity.kind = "riemann" /\ added
    /\ Len(hist.samples) = 3
    /\ Gap(hist.samples, 1) = 7200
    /\ Gap(hist.samples, 2) = 1200
    /\ NumLt(hist.start, total_energy)

\* C16: with nothing or a text that is no number in the StateStore the
\* sensor is started from 0, and the interval between its first two samples
\* is integrated as usual
C16_FailedRestoreStartsAtZero ==
    (/\ entity.kind = "riemann" /\ added
     /\ (stored = NoneV \/ ~IsNum(stored.state)))
        => /\ hist.start = Zero
           /\ Len(hist.samples) <= 1 => total_energy = Zero
           /\ (Len(hist.samples) = 2 /\ Gap(hist.samples, 1) < 3600 * CeilingHours)
                  => total_energy = Trapezoid(hist.samples[1], hist.samples[2])

\* the StateStore held "unavailable" after a reload, and energy was added
C16_Witness ==
    /\ entity.kind = "riemann" /\ added
    /\ stored # NoneV /\ stored.state = Str("unavailable")
    /\ Len(hist.samples) = 2
    /\ NumLt(Zero, total_energy)

-----------------------------------------------------------------------------
(* Claims about the calculated sensors (SpecCalc) *)

IsDaily == entity.kind = "calc" /\ entity.key \in DailyKeys
DailyValue == IF entity.key = "dailyNetGridImport" THEN daily_import ELSE daily_export
LastTotal ==
    IF entity.key = "dailyNetGridImport" THEN last_import_total ELSE last_export_total
\* a tick of the sensor: the one async_added_to_hass runs, or the timer's
TickRan == CalcAdded \/ CalcTick
\* _last_reset_date as the tick finds it
DateAtTick == IF added THEN last_reset_date ELSE RestoredDate(entity.key, stored)

\* the sum of the positive differences of consecutive readings rs[1..i]
RECURSIVE SumPosDiffs(_, _)
SumPosDiffs(rs, i) ==
    IF i <= 1 THEN Zero
    ELSE LET d == NumSub(rs[i], rs[i - 1])
         IN  NumAdd(SumPosDiffs(rs, i - 1), NumMax(d, Zero))

\* C12: a coordinator whose first refresh failed (it holds no Snapshot and its
\* last refresh did not succeed) means setup has raised to the host, no
\* coordinator is registered and the entity has not been started
C12_FirstFetchFailureStopsSetup ==
    \A ch \in Channels :
        (data[ch] = NoneV /\ outcome[ch] \notin {"none", "success"})
            => /\ setupStep = "failed"
               /\ coordinators = {}
               /\ ~added

\* after a reload of a running entry the primary's first refresh succeeded
\* and the secondary's failed
C12_Witness ==
    /\ reloads = 1
    /\ data["modbus"] # NoneV /\ outcome["modbus"] = "success"
    /\ data["cgi"] = NoneV /\ outcome["cgi"] = "UpdateFailed"
    /\ setupStep = "failed"
    /\ stored # NoneV

\* C13: every tick of the entity, the one of async_added_to_hass included,
\* finds a Snapshot in the primary coordinator and, when the secondary channel
\* is enabled, in the registered secondary coordinator
C13_TicksFindSnapshots ==
    [][(RiemannAdded \/ RiemannTick \/ CalcAdded \/ CalcTick)
           => /\ data["modbus"] # NoneV
              /\ cgi => ("cgi" \in coordinators /\ data["cgi"] # NoneV)]_vars

\* a metric of the secondary channel has been computed
C13_Witness ==
    /\ cgi /\ added
    /\ entity.key = "batteryEfficiency"
    /\ native_value = Whole(100)

\* C6: the first tick after a restart on the day of the persisted reset date
\* keeps that date and publishes a value that continues from the persisted
\* running value (never less than it)
C6_DailyValueSurvivesRestart ==
    [][(/\ CalcAdded
        /\ IsDaily
        /\ stored # NoneV
        /\ IsNum(stored.state)
        /\ stored.last_reset_date = DateV(today))
           => /\ last_reset_date' = stored.last_reset_date
              /\ IsNum(native_value')
              /\ NumLe(stored.state, native_value')]_vars

\* C7: while the numeric readings of a daily sensor are those of one day and
\* one entity object, its accumulator is the sum of their positive
\* differences and its reference is the last reading
C7_DailySumOfPositiveDifferences ==
    (/\ IsDaily /\ added
     /\ \A i \in 1..Len(hist.readings) : IsNum(hist.readings[i]))
        => /\ DailyValue = SumPosDiffs(hist.readings, Len(hist.readings))
           /\ Len(hist.readings) > 0 => LastTotal = hist.readings[Len(hist.readings)]

\* the import counter read 12, 10 and 15: the fall moves the reference to 10,
\* the rise from there is added and 5 is published
C7_Witness ==
    /\ IsDaily /\ added
    /\ entity.key = "dailyNetGridImport"
    /\ hist.readings = <<Whole(12), Whole(10), Whole(15)>>
    /\ daily_import = Whole(5)
    /\ native_value = Whole(5)

\* C8: a tick of a daily sensor that finds a reset date other than today
\* leaves the accumulator at 0, the reset date at today and, as reference,
\* nothing but the reading of this tick: no delta is applied
C8_DateChangeResetsFirst ==
    [][(TickRan /\ IsDaily /\ DateAtTick # DateV(today))
           => /\ DailyValue' = Zero
              /\ last_reset_date' = DateV(today)
              /\ LastTotal' = Get(CgiData, CounterKey(entity.key))
              /\ native_value' = Zero]_vars

\* a date change dropped an accumulated value; the reading of that tick is
\* the new reference and has added nothing
C8_Witness ==
    /\ IsDaily /\ added
    /\ hist.dropped # NoneV
    /\ NumLt(Zero, hist.dropped)
    /\ Len(hist.readings) = 1
    /\ LastTotal = hist.readings[1]
    /\ DailyValue = Zero
    /\ last_reset_date = DateV(today)

\* the inputs of the metric are present, numeric and in the domain of its
\* formula
NumIn(d, k) == IsNum(Get(d, k))
InputsUsable(key) ==
    LET modbus_data == data["modbus"].m
        cgi_data == CgiData
    IN  IF key \in DailyKeys THEN NumIn(cgi_data, CounterKey(key))
        ELSE IF key = "batteryEfficiency"
        THEN /\ NumIn(cgi_data, "total_inverter_ac_dc")
             /\ NumIn(cgi_data, "total_inverter_dc_ac")
             /\ Get(cgi_data, "total_inverter_ac_dc") # Zero
        ELSE IF key = "selfSufficiencyRate"
        THEN NumIn(cgi_data, "total_grid_ac_dc") /\ NumIn(cgi_data, "total_inverter_dc_ac")
        ELSE IF key = "selfConsumptionRate"
        THEN NumIn(cgi_data, "total_grid_dc_ac") /\ NumIn(cgi_data, "total_inverter_ac_dc")
        ELSE IF key = "availableEnergy"
        THEN NumIn(modbus_data, "soc") /\ NumIn(modbus_data, "installed_capacity")
        ELSE IF key = "timeToEmpty"
        THEN /\ NumIn(modbus_data, "soc") /\ NumIn(modbus_data, "installed_capacity")
             /\ NumIn(modbus_data, "discharge_power")
             /\ NumLt(Zero, Get(modbus_data, "discharge_power"))
        ELSE IF key = "timeToFull"
        THEN /\ NumIn(modbus_data, "soc") /\ NumIn(modbus_data, "installed_capacity")
             /\ NumIn(modbus_data, "charge_power")
             /\ NumLt(Zero, Get(modbus_data, "charge_power"))
        ELSE NumIn(modbus_data, "charge_power") /\ NumIn(modbus_data, "discharge_power")

\* C9: after a tick that published no value, the next tick on which the
\* inputs of the metric are usable publishes a number
C9_UnavailableForOneTickOnly ==
    [][(/\ CalcTick
        /\ native_value = NoneV
        /\ InputsUsable(entity.key))
           => IsNum(native_value')]_vars

-----------------------------------------------------------------------------
(* Claims about the rate formulas (SpecMetric) *)

\* the counter k of the CGI Snapshot, None when absent
Counter(k) == Get(data["cgi"].m, k)
Percent(part, whole) == NumMul(Whole(100), NumDiv(part, whole))
Within(x, lo, hi) == NumLe(Whole(lo), x) /\ NumLe(x, Whole(hi))

\* C18: battery efficiency is unavailable when a counter is absent or the
\* charged counter is 0, and for numeric counters otherwise it is
\* 100 * discharged / charged, at most 100
C18_BatteryEfficiencyCapped ==
    (entity.key = "batteryEfficiency" /\ added)
        => LET charged == Counter("total_inverter_ac_dc")
               discharged == Counter("total_inverter_dc_ac")
           IN  /\ (charged = NoneV \/ discharged = NoneV \/ charged = Zero)
                      => native_value = NoneV
               /\ (IsNum(charged) /\ IsNum(discharged) /\ charged # Zero)
                      => native_value =
                             NumMin(Percent(discharged, charged), Whole(100))

\* charged = 10 and discharged = 12 give 100
C18_Witness ==
    /\ entity.key = "batteryEfficiency" /\ added
    /\ Counter("total_inverter_ac_dc") = Whole(10)
    /\ Counter("total_inverter_dc_ac") = Whole(12)
    /\ native_value = Whole(100)

\* C19: for numeric counters (an absent one counts as 0) the self-sufficiency
\* rate is 100 when import + discharge is 0, and otherwise
\* 100 * discharge / (import + discharge) brought into [0, 100]
C19_SelfSufficiencyRate ==
    (entity.key = "selfSufficiencyRate" /\ added)
        => LET grid_import == GetDefault(data["cgi"].m, "total_grid_ac_dc", Zero)
               discharge == GetDefault(data["cgi"].m, "total_inverter_dc_ac", Zero)
               total == NumAdd(grid_import, discharge)
           IN  (IsNum(grid_import) /\ IsNum(discharge))
                   => /\ IsNum(native_value)
                      /\ Within(native_value, 0, 100)
                      /\ total = Zero => native_value = Whole(100)
                      /\ (total # Zero /\ Within(Percent(discharge, total), 0, 100))
                             => native_value = Percent(discharge, total)

\* no import and no discharge give 100
C19_Witness ==
    /\ entity.key = "selfSufficiencyRate" /\ added
    /\ Counter("total_grid_ac_dc") = Zero
    /\ Counter("total_inverter_dc_ac") = Zero
    /\ native_value = Whole(100)

\* C20: for numeric counters (an absent one counts as 0) the self-consumption
\* rate is 100 when generation = export + charge is 0, and otherwise
\* 100 * (generation - export) / generation brought into [0, 100]
C20_SelfConsumptionRate ==
    (entity.key = "selfConsumptionRate" /\ added)
        => LET grid_export == GetDefault(data["cgi"].m, "total_grid_dc_ac", Zero)
               charge == GetDefault(data["cgi"].m, "total_inverter_ac_dc", Zero)
               generation == NumAdd(grid_export, charge)
           IN  (IsNum(grid_export) /\ IsNum(charge))
                   => /\ IsNum(native_value)
                      /\ Within(native_value, 0, 100)
                      /\ generation = Zero => native_value = Whole(100)
                      /\ (generation # Zero
                          /\ Within(Percent(NumSub(generation, grid_export), generation),
                                    0, 100))
                             => native_value =
                                    Percent(NumSub(generation, grid_export), generation)

\* export 4 and charge 12: three quarters are consumed
C20_Witness ==
    /\ entity.key = "selfConsumptionRate" /\ added
    /\ Counter("total_grid_dc_ac") = Whole(4)
    /\ Counter("total_inverter_ac_dc") = Whole(12)
    /\ native_value = Whole(75)

-----------------------------------------------------------------------------
(* Claims about flatten_dataclass (SpecFlatten) *)

\* the object the last fetch returned and the flat dict cached for it
Flattened == Len(tries["modbus"]) = 1 /\ data["modbus"] # NoneV
Returned == tries["modbus"][1].r
Cached == data["modbus"].m

\* the non-null leaf fields of a nested record, in traversal order
RECURSIVE LeavesOf(_, _)
LeavesOf(fs, i) ==
    IF i = 0 THEN <<>>
    ELSE LeavesOf(fs, i - 1)
         \o (IF IsDC(fs[i][2]) THEN LeavesOf(fs[i][2].fs, Len(fs[i][2].fs))
             ELSE IF fs[i][2] = NoneV THEN <<>>
             ELSE <<fs[i]>>)
Leaves == LeavesOf(Returned.fs, Len(Returned.fs))
LastWritten(k) ==
    LET i == CHOOSE j \in 1..Len(Leaves) :
                 /\ Leaves[j][1] = k
                 /\ \A l \in (j + 1)..Len(Leaves) : Leaves[l][1] # k
    IN  Leaves[i][2]

\* C21: for a nested record (or a dict of records) the flat dict has no None
\* value, has exactly the names of the non-null leaf fields as keys, without
\* prefix, and holds for each name the value of the leaf written last
C21_FlattenKeepsLeaves ==
    (Flattened /\ Returned.t \in {"dc", "dict"})
        => /\ \A k \in DOMAIN Cached : Cached[k] # NoneV
           /\ DOMAIN Cached = {Leaves[i][1] : i \in 1..Len(Leaves)}
           /\ \A k \in DOMAIN Cached : Cached[k] = LastWritten(k)

\* field b of the nested record is written first and then overwritten by the
\* record's own field b; the null field leaves no entry
C21_Witness ==
    /\ Flattened
    /\ Returned = DC(<< <<"a", DC(<< <<"b", Whole(1)>>, <<"a", NoneV>> >>)>>,
                   <<"b", Whole(2)>> >>)
    /\ Cached = ("b" :> Whole(2))

\* the text Python's str() gives for the inputs that are no record and no dict
ReprOf(v) ==
    IF v = Whole(1) THEN "1"
    ELSE IF v = Str("ok") THEN "ok"
    ELSE "[7, 8]"

\* C22: the fetch that flattens ends well for every input; an input that is
\* no record and no dict gives the one entry str(input) -> input, and None
\* gives the empty dict
C22_FlattenTotal ==
    Len(tries["modbus"]) = 1
        => /\ outcome["modbus"] = "success"
           /\ Flattened
           /\ Returned = NoneV => Cached = EmptyDict
           /\ (Returned # NoneV /\ Returned.t \notin {"dc", "dict"})
                  => Cached = (ReprOf(Returned) :> Returned)

\* a list is keyed by its text
C22_Witness ==
    /\ Flattened
    /\ Returned = ListV(<<Whole(7), Whole(8)>>)
    /\ Cached = ("[7, 8]" :> Returned)

-----------------------------------------------------------------------------
(* Claims about the removal of an entity (SpecRemove) *)

\* the instance has been stopped: added, and its timer unsubscribed
Stopped == added /\ ~unsub_interval

\* C23: once an instance is stopped, no step changes its private state or the
\* value it published while it remains the instance (until a reload replaces
\* it), and its timer stays unsubscribed; in particular stopping it again
\* changes nothing
C23_NoTickAfterStop ==
    [][(Stopped /\ added')
          => UNCHANGED <<unsub_interval, riemannVars, calcVars, native_value, hist>>]_vars

\* a stopped integrator whose last sample is older than the clock: a tick
\* would have been due
C23_Witness ==
    /\ Stopped
    /\ entity.kind = "riemann"
    /\ last_update # NoneV
    /\ last_update.s < now
    /\ hist.n < MaxHist

-----------------------------------------------------------------------------
(* Claims about ticks between the steps of a poll (SpecInterleaved) *)

\* the step is a tick of the entity (or its first calculation when added)
EntityStep ==
    <<added, native_value, riemannVars>>' # <<added, native_value, riemannVars>>

\* what a tick publishes or keeps when all it reads of a channel comes from
\* the Snapshots modbus and cgi_snapshot
ReadsFrom(modbus, cgi_snapshot) ==
    IF entity.key = "timeToFull"
    THEN native_value' = Caught(calculate_time_to_full(modbus.m))
    ELSE IF entity.key = "selfSufficiencyRate"
    THEN native_value' = Caught(calculate_self_sufficiency(modbus.m, cgi_snapshot.m))
    ELSE last_power' # last_power
            => last_power' = PowerOf(Get(modbus.m, entity.source_key))

\* C24: a poll that has not ended leaves the cached Snapshot as it is, and a
\* tick reads every field of a channel from one Snapshot of that channel, the
\* one cached before the step or the one cached after it
C24_TickReadsOneSnapshot ==
    [][/\ \A ch \in Channels :
             (pc[ch] # "idle" /\ pc'[ch] # "idle") => data'[ch] = data[ch]
       /\ EntityStep
             => \E modbus \in {data["modbus"], data'["modbus"]},
                   cgi_snapshot \in {data["cgi"], data'["cgi"]} :
                    ReadsFrom(modbus, cgi_snapshot)]_vars

\* the first attempt of a poll has failed, the second is due, and the metric
\* on three modbus fields stands at the value of the Snapshot still cached
C24_Witness ==
    /\ pc["modbus"] = "second"
    /\ added
    /\ entity.key = "timeToFull"
    /\ IsNum(native_value)
    /\ native_value = calculate_time_to_full(data["modbus"].m)

-----------------------------------------------------------------------------
(* Claims about the attempts of a poll cycle (Spec) *)

\* the flat dict of one whole reply i of ch: for cgi the four reads of reply i
\* and the nested EMS records of the same reply
WholeReply(ch, i) ==
    IF ch = "modbus" THEN Snapshot(flatten_dataclass(ModbusReply(i)))
    ELSE LET ems == CgiEms(i)
         IN  Snapshot(flatten_dataclass(ems.fs[1][2])
                      @@ flatten_dataclass(CgiResult(i)))

LastTry(t) == t[Len(t)]

\* C25: the cache of a coordinator is empty or the flat dict of one whole
\* reply, and a step that changes it empties it (new coordinator) or puts in
\* the reply of the attempt just made, which succeeded
C25_CacheFromOneAttempt ==
    [][\A ch \in Channels :
          /\ data[ch] = NoneV \/ \E i \in Replies(ch) : data[ch] = WholeReply(ch, i)
          /\ data'[ch] # data[ch]
                => \/ data'[ch] = NoneV
                   \/ /\ Len(tries'[ch]) >= 1
                      /\ LastTry(tries'[ch]).ok
                      /\ data'[ch] = WholeReply(ch, LastTry(tries'[ch]).r)]_vars

\* the first attempt on the secondary channel read the EMS endpoint of reply 3
\* and then failed; the cache still holds the whole reply 1 of an earlier poll
C25_Witness ==
    /\ pc["cgi"] = "second"
    /\ ems_data["cgi"] = 3
    /\ data["cgi"] = WholeReply("cgi", 1)

-----------------------------------------------------------------------------
(* Claims about a daily sensor after a restart (SpecCalc) *)

\* C26: the first tick of a daily sensor after a restart, when the persisted
\* reset date is not today's date, leaves the accumulator and the published
\* value at 0, the reset date at today and, as reference, nothing but the
\* reading of this tick
C26_StaleDateResetsAfterRestart ==
    [][(/\ CalcAdded
        /\ IsDaily
        /\ stored # NoneV
        /\ stored.last_reset_date # DateV(today))
           => /\ DailyValue' = Zero
              /\ native_value' = Zero
              /\ last_reset_date' = DateV(today)
              /\ LastTotal' = Get(CgiData, CounterKey(entity.key))]_vars

\* a positive total persisted on day 1, the restart on day 2: the first tick
\* took one reading and publishes 0
C26_Witness ==
    /\ IsDaily /\ added
    /\ stored # NoneV
    /\ IsNum(stored.state) /\ NumLt(Zero, stored.state)
    /\ stored.last_reset_date = DateV(1)
    /\ today = 2
    /\ Len(hist.readings) = 1
    /\ LastTotal = hist.readings[1]
    /\ last_reset_date = DateV(2)
    /\ DailyValue = Zero
    /\ native_value = Zero

-----------------------------------------------------------------------------
(* Claims about errors in a calculation (SpecCalc) *)

\* what the tick of the entity computes in this state
ThisTick ==
    Calculate([CalcState EXCEPT !.last_reset_date = DateAtTick], entity.key,
              CoordinatorData("modbus"), CgiData, today)

\* C27: every tick of every derived metric runs to its end and publishes a
\* number or None, whatever the Snapshots hold, and touches nothing but the
\* state of its own instance: the Snapshots the other metrics read, and the
\* coordinators, are as before
C27_ErrorStaysInOneMetric ==
    [][TickRan
          => /\ ThisTick.ran = "write"
             /\ native_value' = ThisTick.value
             /\ native_value' = NoneV \/ IsNum(native_value')
             /\ UNCHANGED pollVars]_vars

\* the export counter read as text after a number: the subtraction raised
\* TypeError, and the tick published None and recorded the reading
C27_Witness ==
    /\ IsDaily /\ added
    /\ entity.key = "dailyNetGridExport"
    /\ Len(hist.readings) = 2
    /\ IsNum(hist.readings[1])
    /\ hist.readings[2] = Str("n/a")
    /\ native_value = NoneV

-----------------------------------------------------------------------------
(* Claims about the time estimates (SpecMetric) *)

Register(k) == Get(data["modbus"].m, k)
NoZeroDivision(value) == ~(Raised(value) /\ value.e = "ZeroDivisionError")

\* minutes = energy / power * 60
Minutes(energy, power) == NumMul(NumDiv(energy, power), Whole(60))

\* C28: time to empty is None when SoC, capacity or discharge power is absent
\* or the discharge power is at most 0, and for numeric registers with a
\* positive power it is SoC * capacity / 100 / power * 60; time to full
\* likewise with the charge power and capacity * (100 - SoC) / 100; neither
\* formula divides by zero
C28_TimeEstimates ==
    LET soc == Register("soc")
        capacity == Register("installed_capacity")
        power == IF entity.key = "timeToEmpty" THEN Register("discharge_power")
                 ELSE Register("charge_power")
        energy == IF entity.key = "timeToEmpty"
                  THEN NumDiv(NumMul(soc, capacity), Whole(100))
                  ELSE NumDiv(NumMul(capacity, NumSub(Whole(100), soc)), Whole(100))
    IN  (entity.key \in TimeKeys /\ added)
            => /\ (soc = NoneV \/ capacity = NoneV \/ power = NoneV
                      \/ (IsNum(power) /\ NumLe(power, Zero)))
                     => native_value = NoneV
               /\ (IsNum(soc) /\ IsNum(capacity) /\ IsNum(power) /\ NumLt(Zero, power))
                     => native_value = Minutes(energy, power)
               /\ NoZeroDivision(calculate_time_to_empty(data["modbus"].m))
               /\ NoZeroDivision(calculate_time_to_full(data["modbus"].m))

\* 35 % of 5000 Wh at 100 W last 1050 minutes
C28_Witness ==
    /\ entity.key = "timeToEmpty" /\ added
    /\ Register("soc") = Whole(35)
    /\ Register("installed_capacity") = Whole(5000)
    /\ Register("discharge_power") = Whole(100)
    /\ native_value = Whole(1050)

-----------------------------------------------------------------------------
(* Claims about the number of attempts (Spec) *)

\* C29: a poll cycle makes at most two attempts; after a first attempt that
\* succeeded the cycle has ended with that one attempt, and after a first
\* attempt that failed the second has been made or is due, unless the timeout
\* has ended the wait
C29_SecondAttemptIffFirstFailed ==
    \A ch \in Channels :
        LET t == tries[ch]
        IN  /\ Len(t) <= 2
            /\ pc[ch] = "first" => Len(t) = 0
            /\ (Len(t) >= 1 /\ t[1].ok) => (Len(t) = 1 /\ pc[ch] = "idle")
            /\ (Len(t) >= 1 /\ ~t[1].ok)
                   => \/ Len(t) = 2 /\ pc[ch] = "idle"
                      \/ Len(t) = 1 /\ pc[ch] = "second"
                      \/ Len(t) = 1 /\ pc[ch] = "idle" /\ outcome[ch] = "TimeoutError"

\* the primary channel's cycle ended with its first attempt; the secondary's
\* first attempt failed and its second attempt ended the cycle
C29_Witness ==
    /\ pc["modbus"] = "idle" /\ Len(tries["modbus"]) = 1 /\ tries["modbus"][1].ok
    /\ pc["cgi"] = "idle" /\ Len(tries["cgi"]) = 2 /\ ~tries["cgi"][1].ok
    /\ outcome["cgi"] = "UpdateFailed"

-----------------------------------------------------------------------------
(* Claims about one interval of the integrator (SpecRiemann) *)

LastSample(h) == h.samples[Len(h.samples)]

\* C30: a tick that records the reading p1 at t1 after the previous sample p0
\* at t0 of the same object adds (|p1| + |p0|) / 2 * (t1 - t0) / 3600 / 1000
\* when 0 < t1 - t0 < one hour, and adds nothing when t1 - t0 <= 0
C30_TrapezoidPerInterval ==
    [][(/\ entity.kind = "riemann" /\ added /\ added'
        /\ Len(hist.samples) >= 1
        /\ Len(hist'.samples) = Len(hist.samples) + 1)
           => LET p0 == NumAbs(LastSample(hist)[1])
                  p1 == NumAbs(LastSample(hist')[1])
                  dt == LastSample(hist')[2] - LastSample(hist)[2]
                  area == NumMul(NumDiv(NumAdd(p1, p0), Whole(2)), Num(dt, 3600))
              IN  /\ (0 < dt /\ dt < 3600 * CeilingHours)
                        => total_energy' = NumAdd(total_energy, NumDiv(area, Whole(1000)))
                  /\ dt <= 0 => total_energy' = total_energy]_vars

\* 100 W, then -50 W twenty minutes later: 75 W for a third of an hour
C30_Witness ==
    /\ entity.kind = "riemann" /\ added
    /\ hist.start = Zero
    /\ Len(hist.samples) = 2
    /\ hist.samples[1][1] = Whole(100)
    /\ hist.samples[2][1] = Whole(0 - 50)
    /\ Gap(hist.samples, 1) = 1200
    /\ total_energy = Num(1, 40)

-----------------------------------------------------------------------------
(* Claims about the ticks of the integrator that record nothing (SpecRiemann) *)

\* what the integrator finds cached under its source field
Reading ==
    IF CoordinatorData("modbus") = NoneV THEN NoneV
    ELSE Get(CoordinatorData("modbus").m, entity.source_key)

\* the timer of the integrator can fire in this state
TickDue == entity.kind = "riemann" /\ TimerLive /\ hist.n < MaxHist

\* the step is the timer's tick of the integrator, if it is a step at all:
\* no poll has ended, the clock stands, and the entity object is the same
TimerStep ==
    /\ TickDue
    /\ UNCHANGED <<pollVars, now, reloads, added, unsub_interval>>

\* the step is async_added_to_hass of the integrator
AddedStep == entity.kind = "riemann" /\ ~added /\ added'

\* C31: where no Snapshot is cached, or the cached one lacks the source
\* field, a tick leaves _total_energy, _last_power, _last_update and the
\* published value as they are and records no sample; taken inside
\* async_added_to_hass it leaves the restored energy and no sample
C31_TickWithoutReadingIsNoOp ==
    [][Reading = NoneV
          => /\ TimerStep => UNCHANGED <<riemannVars, native_value, hist>>
             /\ AddedStep
                   => /\ total_energy' = RestoreEnergy(stored)
                      /\ last_power' = NoneV
                      /\ last_update' = NoneV
                      /\ hist'.samples = <<>>]_vars

\* two samples have added energy, time has passed since the second, and the
\* Snapshot cached now lacks the field: the tick that is due changes nothing
C31_Witness ==
    /\ TickDue
    /\ CoordinatorData("modbus") # NoneV
    /\ Reading = NoneV
    /\ Len(hist.samples) = 2
    /\ NumLt(hist.start, total_energy)
    /\ last_update.s < now
    /\ IsNum(native_value) /\ NumLt(Zero, native_value)

-----------------------------------------------------------------------------
(* Claims about what the integrator publishes (SpecRiemann) *)

\* the cached reading is one float() accepts
HasPower == entity.kind = "riemann" /\ Reading # NoneV /\ IsNum(Reading)

\* the timer's tick has recorded a sample in this step
SampleStep == TimerStep /\ hist'.n = hist.n + 1

\* v is x rounded to 6 decimals: a multiple of 10^-6 at most half of 10^-6
\* away from x
RoundedTo6(v, x) ==
    /\ IsNum(v)
    /\ 1000000 % v.d = 0
    /\ NumLe(NumAbs(NumSub(v, x)), Num(1, 2000000))

\* C32: with a power reading cached, the first tick of an integrator object
\* (inside async_added_to_hass, or the timer's if that one found no reading)
\* adds nothing to the restored energy and stores the absolute reading and
\* the time of the tick as the previous sample, and every tick that records a
\* sample publishes _total_energy rounded to 6 decimals
C32_FirstTickSetsBaseline ==
    [][HasPower
          => /\ AddedStep
                   => /\ total_energy' = RestoreEnergy(stored)
                      /\ hist'.samples = << <<Reading, now>> >>
             /\ (SampleStep /\ last_power = NoneV)
                   => /\ total_energy' = total_energy
                      /\ Len(hist'.samples) = 1
             /\ (AddedStep \/ SampleStep)
                   => /\ last_power' = NumAbs(Reading)
                      /\ last_update' = TimeV(now)
                      /\ RoundedTo6(native_value', total_energy')]_vars

\* the first tick published the restored 5.0 and recorded -50 W, and two
\* later ticks have published 5.033333 for an energy of 5 + 1/30 kWh
C32_Witness ==
    /\ entity.kind = "riemann" /\ added
    /\ hist.start = Whole(5)
    /\ hist.first = Whole(5)
    /\ Len(hist.samples) = 3
    /\ hist.samples[1][1] = Whole(0 - 50)
    /\ total_energy = Num(151, 30)
    /\ native_value = Num(5033333, 1000000)

-----------------------------------------------------------------------------
(* Claims about a reading the integrator cannot convert (SpecRiemann) *)

\* the cached reading is one float() rejects
BadPower == entity.kind = "riemann" /\ Reading # NoneV /\ ~IsNum(Reading)

\* the energy after a tick at time t that reads p, from the previous sample
\* <<p0, t0>> and the energy e
Integrated(e, p0, t0, p, t) ==
    IF 0 < t - t0 /\ t - t0 < 3600 * CeilingHours
    THEN NumAdd(e, NumDiv(NumMul(NumDiv(NumAdd(NumAbs(p), p0), Whole(2)),
                                 Num(t - t0, 3600)),
                          Whole(1000)))
    ELSE e

\* C35: a tick that finds a reading float() rejects changes none of
\* _total_energy, _last_power, _last_update and the published value, records
\* no sample and leaves the timer registered (inside async_added_to_hass: the
\* restored energy, no sample, the timer registered); a tick that then
\* records a numeric reading integrates from the sample stored last
C35_BadReadingChangesNothing ==
    [][/\ BadPower
          => /\ (TickDue /\ UNCHANGED <<pollVars, now, reloads, added>>)
                   => UNCHANGED <<riemannVars, native_value, hist, unsub_interval>>
             /\ AddedStep
                   => /\ total_energy' = RestoreEnergy(stored)
                      /\ last_power' = NoneV
                      /\ last_update' = NoneV
                      /\ hist'.samples = <<>>
                      /\ unsub_interval'
       /\ (HasPower /\ SampleStep /\ Len(hist.samples) >= 1)
          => /\ last_power = NumAbs(LastSample(hist)[1])
             /\ last_update = TimeV(LastSample(hist)[2])
             /\ total_energy' = Integrated(total_energy, last_power, last_update.s,
                                           Reading, now)]_vars

\* the tick inside async_added_to_hass has raised on the text "n/a": the
\* restored 5.0 is kept, no sample is stored, nothing has been published and
\* the timer is registered
C35_Witness ==
    /\ entity.kind = "riemann" /\ added
    /\ TimerLive
    /\ Reading = Str("n/a")
    /\ total_energy = Whole(5)
    /\ last_power = NoneV /\ last_update = NoneV
    /\ hist.samples = <<>>
    /\ hist.first = NoneV
    /\ native_value = NoneV

-----------------------------------------------------------------------------
(* Claims about ticks during an outage of a channel (SpecOutage) *)

\* the last poll of ch ended without a reply
Failing(ch) == outcome[ch] \in {"UpdateFailed", "TimeoutError"}

\* C34: the end of a poll changes nothing of the integrator, a failed poll
\* keeps the Snapshot, and a tick that records a sample after an earlier one
\* adds what the cached reading, the previous sample and the elapsed time
\* give, whatever the outcome of the last poll; while the primary channel is
\* failing that is the trapezoid of the retained reading, more than nothing
\* for a gap under an hour unless both samples are 0 W
C34_StaleReadingIntegrated ==
    [][/\ pollVars' # pollVars => UNCHANGED <<riemannVars, native_value, hist>>
       /\ \A ch \in Channels :
             (Failing(ch)' /\ data[ch] # NoneV) => data'[ch] = data[ch]
       /\ (HasPower /\ SampleStep /\ last_power # NoneV)
             => /\ total_energy' = Integrated(total_energy, last_power, last_update.s,
                                              Reading, now)
                /\ (/\ Failing("modbus")
                    /\ 0 < now - last_update.s
                    /\ now - last_update.s < 3600 * CeilingHours
                    /\ NumLt(Zero, NumAdd(NumAbs(Reading), last_power)))
                       => NumLt(total_energy, total_energy')]_vars

\* the primary channel has not answered since setup: two ticks twenty minutes
\* apart have each added the trapezoid of the retained 100 W
C34_Witness ==
    /\ ~cgi /\ entity.kind = "riemann" /\ added
    /\ Failing("modbus")
    /\ Reading = Whole(100)
    /\ Len(hist.samples) = 3
    /\ \A i \in 1..3 : hist.samples[i][1] = Whole(100)
    /\ Gap(hist.samples, 1) = 1200 /\ Gap(hist.samples, 2) = 1200
    /\ total_energy = Num(1, 15)

\* the other channel
Other(ch) == IF ch = "modbus" THEN "cgi" ELSE "modbus"

\* what a metric computed from the primary Snapshot alone publishes
FromPrimary(key, modbus_data) ==
    IF key = "availableEnergy" THEN calculate_available_energy(modbus_data)
    ELSE IF key = "timeToEmpty" THEN calculate_time_to_empty(modbus_data)
    ELSE IF key = "timeToFull" THEN calculate_time_to_full(modbus_data)
    ELSE calculate_total_power_flow(modbus_data)

\* C33: once setup is done, a poll of a channel that ends in failure leaves
\* the Snapshot, the last outcome and the schedule of the other channel as
\* they are and the setup done; and while the secondary channel is failing,
\* a tick of an integrator records and publishes as usual, and a tick of a
\* metric of the primary channel publishes the value computed from the
\* primary Snapshot (None only for an error in that computation)
C33_OneChannelFailsAlone ==
    [][/\ \A ch \in Channels :
             (PlatformForwarded /\ Failing(ch)' /\ outcome'[ch] # outcome[ch])
                => /\ data'[Other(ch)] = data[Other(ch)]
                   /\ outcome'[Other(ch)] = outcome[Other(ch)]
                   /\ MayStart(Other(ch))' = MayStart(Other(ch))
                   /\ PlatformForwarded'
       /\ (cgi /\ Failing("cgi") /\ HasPower /\ SampleStep)
             => /\ last_power' = NumAbs(Reading)
                /\ last_update' = TimeV(now)
                /\ RoundedTo6(native_value', total_energy')
       /\ (/\ cgi /\ Failing("cgi")
           /\ entity.kind = "calc" /\ entity.key \in PrimaryKeys
           /\ TimerLive
           /\ UNCHANGED <<pollVars, now, reloads, added>>)
             => LET value == FromPrimary(entity.key, data["modbus"].m)
                IN  native_value' = IF Raised(value) THEN NoneV ELSE value]_vars

\* the secondary channel has not answered since setup and its Snapshot is
\* kept; the primary channel has been polled with success, and the tick of
\* the integrator twenty minutes after the first has recorded the new
\* reading and published 0.025 kWh
C33_Witness ==
    /\ cgi /\ entity.kind = "riemann" /\ added
    /\ Failing("cgi") /\ data["cgi"] # NoneV
    /\ outcome["modbus"] = "success"
    /\ Len(hist.samples) = 2
    /\ hist.samples[1][1] = Whole(100)
    /\ hist.samples[2][1] = Whole(0 - 50)
    /\ Gap(hist.samples, 1) = 1200
    /\ total_energy = Num(1, 40)
    /\ native_value = Num(1, 40)

-----------------------------------------------------------------------------
(* Claims about the daily accumulators between two ticks (SpecCalc) *)

\* the counter reading the tick of a daily sensor finds
CounterRead == Get(CgiData, CounterKey(entity.key))

\* the timer's tick of a daily sensor whose last tick was on today's date
SameDayTick == CalcTick /\ IsDaily /\ last_reset_date = DateV(today)

\* C36: a timer tick of a daily sensor on the date of its previous tick
\* never decreases the accumulator, whatever it reads, and the accumulator is
\* never negative after a tick; with numeric readings on both ticks the
\* published value does not decrease either
C36_DailyValueNeverDecreases ==
    [][/\ (TickRan /\ IsDaily) => NumLe(Zero, DailyValue')
       /\ SameDayTick
             => /\ NumLe(DailyValue, DailyValue')
                /\ (/\ IsNum(CounterRead)
                    /\ IsNum(native_value)
                    /\ native_value = Round(DailyValue, 3)
                    /\ IsNum(native_value'))
                       => NumLe(native_value, native_value')]_vars

\* the import counter read 10, 15 and then 12: the accumulator stands at 5
\* after the decrease, and 12 is the new reference
C36_Witness ==
    /\ IsDaily /\ added
    /\ entity.key = "dailyNetGridImport"
    /\ last_reset_date = DateV(today)
    /\ hist.readings = <<Whole(10), Whole(15), Whole(12)>>
    /\ daily_import = Whole(5)
    /\ last_import_total = Whole(12)
    /\ native_value = Whole(5)

\* C37: a tick of a daily sensor that finds today's reset date and no
\* counter in the CGI Snapshot leaves the accumulator and the reference
\* reading as they are (0 and none for a new object) and publishes the
\* accumulator; a tick that finds a numeric counter and a numeric reference
\* adds their difference if it is positive and takes the counter as reference
C37_MissingCounterKeepsReference ==
    [][(TickRan /\ IsDaily /\ DateAtTick = DateV(today) /\ CgiData # NoneV)
          => /\ CounterRead = NoneV
                   => /\ DailyValue' = (IF added THEN DailyValue ELSE Zero)
                      /\ LastTotal' = (IF added THEN LastTotal ELSE NoneV)
                      /\ native_value' = DailyValue'
                      /\ last_reset_date' = DateV(today)
             /\ (added /\ IsNum(CounterRead) /\ IsNum(LastTotal))
                   => /\ DailyValue' = NumAdd(DailyValue,
                                              NumMax(NumSub(CounterRead, LastTotal), Zero))
                      /\ LastTotal' = CounterRead]_vars

\* the export counter read 5 and then 5.33366..., published as 0.334; the
\* Snapshot cached now lacks the counter, and the tick has published the
\* accumulator itself, 0.33366..., and kept the reference
C37_Witness ==
    /\ IsDaily /\ added
    /\ entity.key = "dailyNetGridExport"
    /\ last_reset_date = DateV(today)
    /\ CgiData # NoneV /\ CounterRead = NoneV
    /\ hist.readings = <<Whole(5), Num(16001, 3000)>>
    /\ daily_export = Num(1001, 3000)
    /\ last_export_total = Num(16001, 3000)
    /\ native_value = Num(1001, 3000)


-----------------------------------------------------------------------------
(* Claims about flattening a flat dict again (SpecFlatten) *)

\* the fetch that returned the cached entries as a dict has been flattened
FlattenedAgain == Len(tries["modbus"]) = 2
\* the entries of the dict that fetch returned
EntriesOf(obj) ==
    [k \in {obj.fs[i][1] : i \in 1..Len(obj.fs)} |->
        obj.fs[CHOOSE i \in 1..Len(obj.fs) : obj.fs[i][1] = k][2]]

\* C38: flattening the flat dict of any input again gives the same flat dict:
\* the refresh that flattens the cached entries leaves the Snapshot as it is,
\* and the flat dict holds no None and no record as a value
C38_FlattenIdempotent ==
    /\ FlattenedAgain
           => /\ data["modbus"] # NoneV
              /\ Cached = EntriesOf(tries["modbus"][2].r)
              /\ Cached = flatten_dataclass(tries["modbus"][1].r)
    /\ (Len(tries["modbus"]) >= 1 /\ data["modbus"] # NoneV)
           => \A k \in DOMAIN Cached : Cached[k] # NoneV /\ ~IsDC(Cached[k])

\* a record with a nested record and a null field, flattened twice; the dict
\* handed back lists b before a
C38_Witness ==
    /\ FlattenedAgain
    /\ tries["modbus"][1].r =
           DC(<< <<"a", DC(<< <<"a", Whole(1)>>, <<"b", NoneV>> >>)>>,
                 <<"b", Whole(2)>> >>)
    /\ tries["modbus"][2].r = DictV(<< <<"b", Whole(2)>>, <<"a", Whole(1)>> >>)
    /\ Cached = ("a" :> Whole(1)) @@ ("b" :> Whole(2))

-----------------------------------------------------------------------------
(* Claims about the derived metrics without the CGI channel (SpecCalc) *)

\* what a metric of the CGI channel publishes from an empty mapping
FromEmpty(key) ==
    IF key \in DailyKeys THEN Zero
    ELSE IF key = "batteryEfficiency" THEN NoneV
    ELSE Whole(100)

\* C39: with the CGI channel disabled there is no CGI coordinator and every
\* tick of a derived metric reads the empty mapping for it: battery
\* efficiency publishes None, self-sufficiency and self-consumption 100, both
\* daily accumulators 0 (their running value stays 0 and no reference reading
\* is kept), and a metric of the primary channel publishes the value computed
\* from the primary Snapshot
C39_DisabledCgiReadsEmpty ==
    /\ []((~cgi /\ entity.kind = "calc" /\ added)
            => /\ "cgi" \notin coordinators
               /\ CgiData = EmptyDict
               /\ entity.key \notin PrimaryKeys
                     => native_value = FromEmpty(entity.key)
               /\ daily_import = Zero /\ daily_export = Zero
               /\ last_import_total = NoneV /\ last_export_total = NoneV)
    /\ [][(~cgi /\ TickRan)
            => /\ ThisTick.ran = "write"
               /\ entity.key \notin PrimaryKeys
                     => native_value' = FromEmpty(entity.key)
               /\ entity.key \in PrimaryKeys
                     => native_value' =
                            Caught(FromPrimary(entity.key, data["modbus"].m))]_vars

\* after a reload the daily import sensor, restored from the persisted 0 and
\* ticked on the next day, publishes 0 with no reference reading
C39_Witness ==
    /\ ~cgi /\ added
    /\ entity.key = "dailyNetGridImport"
    /\ reloads = 1
    /\ stored # NoneV
    /\ last_reset_date = DateV(2)
    /\ native_value = Zero
    /\ last_import_total = NoneV

=============================================================================
